---- MODULE Spec2Model ----
(***************************************************************************)
(* State-machine model of the minerx controllers:                          *)
(*   - MinerSetReconciler (internal/controller/minerset_controller.go)     *)
(*   - MinerReconciler    (the Miner controller)                           *)
(*   - ChainReconciler    (the Chain controller)                           *)
(* running against an object store (the Kubernetes API server) that holds  *)
(* MinerSets, Miners, Pods, Chains and ConfigMaps.  Every store call of a  *)
(* reconcile pass is                                                       *)
(* one step, so passes of different objects interleave with each other     *)
(* and with the external writers (user, garbage collector, kubelet).       *)
(***************************************************************************)
EXTENDS Integers, Sequences, FiniteSets, TLC

VARIABLES
    sets,     \* store: MinerSet objects, by name
    miners,   \* store: Miner objects, by name
    pods,     \* store: Pod objects, by name (a Miner's pod has the Miner's name)
    blocked,  \* names of pods whose delete request the store answers with an error
    msw,      \* per MinerSet: the in-flight MinerSetReconciler.Reconcile call
    mw,       \* the in-flight MinerReconciler.Reconcile call
    faults,   \* store errors the environment may still inject
    user,     \* writes the user may still make
    chain,    \* store: the Chain object
    cms,      \* store: ConfigMap objects, by name
    cw,       \* the in-flight ChainReconciler.Reconcile call
    ledger    \* the condition list of one resource (a condition.Setter) and the clock

vars == <<sets, miners, pods, blocked, msw, mw, faults, user, chain, cms, cw, ledger>>

----------------------------------------------------------------------------
(* Bounds of the model *)

MaxReplicas == 2
MaxGen == 3
MaxFaults == 1
MaxUser == 1
MaxReplicasTwo == 1
MaxRetryReplicas == 1
MaxClock == 1
MaxListed == 3
MaxGeneration == 2
MaxConfigMaps == 2
MaxChainGen == 2
MaxChainWrites == 2
ShortTimeout == 4

(* Program constants, in seconds *)
defaultPodTimeout == 10
podPollInterval == 2

----------------------------------------------------------------------------
(* Names, labels, owners *)

Sets == {"A", "B"}

minerFinalizer == "miner.onex.io/finalizer"
minerSetFinalizer == "minerset.onex.io/finalizer"

\* A Miner name is <<base, k>>: a user-given name has base "u"; a name the
\* store generates from GenerateName "<set>-" has the set's name as base and
\* the store-chosen suffix k.
UserNames == {<<"u", 1>>, <<"u", 2>>}
GenNames(s) == {<<s, k>> : k \in 1..MaxGen}
\* The Chain is named "g"; the Miner a Chain asks for has the Chain's name,
\* <<g, 0>>; a ConfigMap name generated from GenerateName "<chain>-" is
\* <<g, k>> with the store-chosen suffix k; <<"", 0>> is the empty name.
ChainName == "g"
ChainMinerName(g) == <<g, 0>>
EmptyName == <<"", 0>>
ConfigMapNames == {<<ChainName, k>> : k \in 1..MaxConfigMaps}
NameContains(name, g) == name[1] = g

Names == UserNames \cup UNION {GenNames(s) : s \in Sets} \cup {ChainMinerName(ChainName)}

GenerateName(s) == s
HasGeneratedPrefix(name, s) == name[1] = s /\ name[2] \in 1..MaxGen

NoOwner == "none"
ForeignOwner == "other"     \* a controller owner that is no MinerSet (e.g. a Chain)
Owners == Sets \cup {NoOwner, ForeignOwner}

AppLabel == <<"app", "miner">>
TierLabel == <<"tier", "gold">>
Selector(s) == {AppLabel}
minerSetNameLabel == "minerset.onex.io/name"
chainNameLabel == "chain.onex.io/name"
\* the template of B has a label with the key of the chain name label
TemplateLabels(s) ==
    IF s = "B" THEN {AppLabel, TierLabel, <<chainNameLabel, "main">>}
    ELSE {AppLabel, TierLabel}
TemplateChain(s) == "chain"
TemplateMinerType(s) == "small"
TemplateRestartPolicy(s) == "Always"

NilTimeout == -1            \* spec.podDeletionTimeout unset

\* a reference to an object by name: nil, or a reference with a name
NilRef == [set |-> FALSE, name |-> EmptyName]
Ref(name) == [set |-> TRUE, name |-> name]

\* A condition is "" (not set), "True", or the reason of its status False.
\* MinerStatus: phase, observedGeneration, the conditions PodHealthy,
\* InfrastructureReady and BootstrapReady, addresses, failureReason ("" is
\* nil) and podRef
EmptyStatus ==
    [phase |-> "", og |-> 0, healthy |-> "", infra |-> "", boot |-> "",
     addrs |-> <<>>, fail |-> "", podRef |-> NilRef]

\* A Pod: whether the store holds it (and whether it is terminating), its
\* controller owner, image and restart policy, and the status its kubelet
\* reported
AbsentPod ==
    [state |-> "absent", owner |-> NoOwner, image |-> "", restart |-> "",
     phase |-> "", ready |-> FALSE, ips |-> <<>>, message |-> ""]

\* MinerSpec.MinerType and MinerSpec.RestartPolicy as the tests set them;
\* "" is unset
MinerTypes == {"", "small", "medium", "large", "unknown"}
RestartPolicies == {"", "Always", "OnFailure", "Never"}

AbsentMiner ==
    [exists |-> FALSE, labels |-> {}, owner |-> NoOwner, refs |-> {}, fins |-> {},
     del |-> FALSE, pdt |-> NilTimeout, mtype |-> "", restart |-> "",
     gen |-> 0, st |-> EmptyStatus]

AbsentSet ==
    [exists |-> FALSE, del |-> FALSE, fin |-> FALSE, chainLabel |-> "", gen |-> 0, og |-> 0,
     replicas |-> 0, policy |-> "", statusReplicas |-> 0, fullyLabeled |-> 0, ready |-> 0,
     available |-> 0, resized |-> "", minersCreated |-> "", minersReady |-> ""]

Policies == {"", "Random", "Newest", "Oldest"}

chainFinalizer == "chain.onex.io/finalizer"
ChainLabel(g) == <<"chain.onex.io/name", g>>

\* ChainStatus: observedGeneration, configMapRef, minerRef and the
\* conditions ConfigMapsCreated and MinersCreated
EmptyChainStatus ==
    [og |-> 0, configMapRef |-> NilRef, minerRef |-> NilRef,
     configMapsCreated |-> "", minersCreated |-> ""]

AbsentChain ==
    [exists |-> FALSE, del |-> FALSE, fin |-> FALSE, gen |-> 0, st |-> EmptyChainStatus]

AbsentConfigMap == [exists |-> FALSE, labels |-> {}, owner |-> NoOwner]

----------------------------------------------------------------------------
(* Pure helpers of the MinerSet controller *)

\* metav1.IsControlledBy(miner, ms) / metav1.GetControllerOf(miner)
IsControlledBy(m, s) == m.owner = s

\* a filter that excludes nothing
shouldExcludeMiner_none(s, m) == FALSE

shouldExcludeMiner(s, m) == m.owner # NoOwner /\ ~IsControlledBy(m, s)

\* the selector match of r.List(..., client.MatchingLabels(selectorMap))
MatchesSelector(s, m) == Selector(s) \subseteq m.labels

SubSeqFrom(q, a, b) == [i \in 1..(b - a + 1) |-> q[a + i - 1]]

\* a selection in which Newest takes from the back
getMinersToDelete_back(policy, ms, count) ==
    IF count >= Len(ms) THEN ms
    ELSE SubSeqFrom(ms, Len(ms) - count + 1, Len(ms))

\* a selection that takes every counted Miner
getMinersToDelete_all(policy, ms, count) == ms

getMinersToDelete(policy, ms, count) ==
    IF count >= Len(ms) THEN ms
    ELSE IF policy = "Newest" THEN SubSeqFrom(ms, 1, count)
    ELSE IF policy = "Oldest" THEN SubSeqFrom(ms, Len(ms) - count + 1, Len(ms))
    ELSE SubSeqFrom(ms, 1, count)

\* a diff that is off by one
ReplicaDiff_offByOne(n, r) == n - r + 1

\* a diff that sees one Miner too few
ReplicaDiff_short(n, r) == n - r - 1

\* syncReplicas: diff := len(miners) - int(*ms.Spec.Replicas)
ReplicaDiff(n, r) == n - r

\* deleteMiners: `if !miner.DeletionTimestamp.IsZero() { continue }`
SkipDelete(snap) == snap.del

\* a delete loop that takes NotFound for a failure
DeleteFailed_strict(answer) == answer # "ok"

\* deleteMiners: `err != nil && !errors.IsNotFound(err)`
DeleteFailed(answer) == answer # "ok" /\ answer # "NotFound"

\* labels[k] = v on a map of labels
SetLabel(labels, k, v) == {l \in labels : l[1] # k} \cup {<<k, v>>}

\* a desired Miner without the chain name label
computeDesiredMiner_noChain(s) ==
    [exists |-> TRUE,
     labels |-> SetLabel(TemplateLabels(s), minerSetNameLabel, s),
     owner |-> s,
     refs |-> {},
     fins |-> {minerSetFinalizer},
     del |-> FALSE,
     pdt |-> NilTimeout,
     mtype |-> TemplateMinerType(s),
     restart |-> TemplateRestartPolicy(s),
     gen |-> 1,
     st |-> EmptyStatus]

\* computeDesiredMiner(ms, nil)
computeDesiredMiner(s) ==
    [exists |-> TRUE,
     labels |-> SetLabel(SetLabel(TemplateLabels(s), minerSetNameLabel, s),
                         chainNameLabel, TemplateChain(s)),
     owner |-> s,
     refs |-> {},
     fins |-> {minerSetFinalizer},
     del |-> FALSE,
     pdt |-> NilTimeout,
     mtype |-> TemplateMinerType(s),
     restart |-> TemplateRestartPolicy(s),
     gen |-> 1,
     st |-> EmptyStatus]

\* a patch that leaves the owner references as they are
AdoptPatch_noRef(stored, listed, s) == stored

\* adoptOrphan: the merge patch between the listed Miner and the listed Miner
\* with the reference to ms appended, {"metadata":{"ownerReferences":[<the
\* listed references>, <ref to ms>]}}, applied to the stored object,
\* whatever it holds now: a merge patch replaces a list as a whole
AdoptPatch(stored, listed, s) == [stored EXCEPT !.owner = s, !.refs = listed.refs]

----------------------------------------------------------------------------
(* The store's delete: an object with finalizers is only marked *)

StoreDeleteMiner(m) ==
    IF m.fins = {} THEN AbsentMiner ELSE [m EXCEPT !.del = TRUE]

\* an item of the MinerList: the fields of the Miner that the pass reads
Snap(name) ==
    [name |-> name, owner |-> miners[name].owner, refs |-> miners[name].refs,
     del |-> miners[name].del,
     labels |-> miners[name].labels, phase |-> miners[name].st.phase,
     og |-> miners[name].st.og, gen |-> miners[name].gen]

Perms(S) ==
    {f \in [1..Cardinality(S) -> S] : \A i, j \in 1..Cardinality(S) : i # j => f[i] # f[j]}

SeqNames(q) == {q[i].name : i \in 1..Len(q)}

IdleMsw ==
    [pc |-> "Idle", fin |-> FALSE, chainLabel |-> "", replicas |-> 0, policy |-> "",
     stale |-> FALSE,
     all |-> <<>>, idx |-> 1, filtered |-> <<>>, todo |-> 0, toDelete |-> <<>>,
     created |-> <<>>, confirmed |-> {}, patched |-> {}, delreq |-> {}, delok |-> {},
     resized |-> "", minersCreated |-> "", answer |-> "", result |-> "none", err |-> ""]

IdleMw ==
    [pc |-> "Idle", name |-> <<"u", 1>>, fins |-> {}, del |-> FALSE, pdt |-> NilTimeout,
     mtype |-> "", restart |-> "", st |-> EmptyStatus, pod |-> AbsentPod,
     stale |-> FALSE, elapsed |-> 0, result |-> "none", err |-> ""]

\* another writer changed Miner `name`: a copy the Miner worker holds is stale
Touch(name) ==
    IF mw.name = name /\ mw.pc \notin {"Idle", "Done"}
    THEN [mw EXCEPT !.stale = TRUE] ELSE mw

\* a return that reports every pass as successful
MsFinish_swallow(s, res, why) ==
    [msw EXCEPT ![s] = [IdleMsw EXCEPT !.pc = "Done", !.result = "ok", !.err = why]]

\* the pass returns: its locals are dropped, the result is kept
MsFinish(s, res, why) ==
    [msw EXCEPT ![s] = [IdleMsw EXCEPT !.pc = "Done", !.result = res, !.err = why]]

----------------------------------------------------------------------------
(* MinerSetReconciler.Reconcile, one step per store call *)

MsActive(s) == msw[s].pc \notin {"Idle", "Done"}

\* Reconcile: r.Get(ctx, req.NamespacedName, ms) and the branch on the
\* deletion timestamp; with the finalizer present reconcile goes on to set
\* the chain name label on the pass's copy
MsGet(s) ==
    /\ ~MsActive(s)
    /\ msw' = [msw EXCEPT ![s] =
          IF ~sets[s].exists
          THEN [IdleMsw EXCEPT !.pc = "Done", !.result = "ok", !.err = "NotFound"]
          ELSE [IdleMsw EXCEPT
                  !.pc = IF sets[s].del THEN "RemoveFin"
                         ELSE IF sets[s].fin THEN "List" ELSE "AddFin",
                  !.fin = sets[s].fin,
                  !.chainLabel = IF sets[s].del \/ ~sets[s].fin THEN sets[s].chainLabel
                                 ELSE TemplateChain(s),
                  !.replicas = sets[s].replicas,
                  !.policy = sets[s].policy]]
    /\ UNCHANGED <<sets, miners, pods, blocked, mw, faults, user, chain, cms, cw, ledger>>

\* a delete pass that also sends a delete request for the set's Miners
MsRemoveFinalizer_cascade(s) ==
    /\ msw[s].pc = "RemoveFin"
    /\ sets' = [sets EXCEPT ![s] = AbsentSet]
    /\ miners' = [n \in Names |->
                     IF miners[n].exists /\ miners[n].owner = s
                     THEN StoreDeleteMiner(miners[n]) ELSE miners[n]]
    /\ msw' = MsFinish(s, "ok", "")
    /\ UNCHANGED <<pods, blocked, mw, faults, user, chain, cms, cw, ledger>>

\* reconcileDelete: remove the set's finalizer with r.Update
MsRemoveFinalizer(s) ==
    /\ msw[s].pc = "RemoveFin"
    /\ IF ~msw[s].fin
       THEN /\ msw' = MsFinish(s, "ok", "")
            /\ UNCHANGED sets
       ELSE IF msw[s].stale
       THEN /\ msw' = MsFinish(s, "err", "Conflict")
            /\ UNCHANGED sets
       ELSE /\ sets' = [sets EXCEPT ![s] = AbsentSet]
            /\ msw' = MsFinish(s, "ok", "")
    /\ UNCHANGED <<miners, pods, blocked, mw, faults, user, chain, cms, cw, ledger>>

\* a pass that goes on to the List without having stored the finalizer
MsAddFinalizer_goOn(s) ==
    /\ msw[s].pc = "AddFin"
    /\ msw' = [msw EXCEPT ![s].pc = "List", ![s].fin = TRUE,
                           ![s].chainLabel = TemplateChain(s)]
    /\ UNCHANGED <<sets, miners, pods, blocked, mw, faults, user, chain, cms, cw, ledger>>

\* reconcile: add the set's finalizer with r.Update, which stores the labels
\* as they were read; `ms.Labels[chainNameLabel] = ...` follows on the
\* pass's copy
MsAddFinalizer(s) ==
    /\ msw[s].pc = "AddFin"
    /\ IF msw[s].stale
       THEN /\ msw' = MsFinish(s, "err", "Conflict")
            /\ UNCHANGED sets
       ELSE /\ sets' = [sets EXCEPT ![s].fin = TRUE]
            /\ msw' = [msw EXCEPT ![s].pc = "List", ![s].fin = TRUE,
                                   ![s].chainLabel = TemplateChain(s)]
    /\ UNCHANGED <<miners, pods, blocked, mw, faults, user, chain, cms, cw, ledger>>

\* reconcile: r.List(ctx, allMiners, InNamespace, MatchingLabels); the order
\* of the items is the store's (a cache read gives no order)
MsList(s) ==
    /\ msw[s].pc = "List"
    /\ \E order \in Perms({n \in Names : miners[n].exists /\ MatchesSelector(s, miners[n])}) :
          msw' = [msw EXCEPT ![s].pc = "Filter",
                             ![s].all = [i \in 1..Len(order) |-> Snap(order[i])],
                             ![s].idx = 1,
                             ![s].filtered = <<>>]
    /\ UNCHANGED <<sets, miners, pods, blocked, mw, faults, user, chain, cms, cw, ledger>>

\* reconcile, the filter loop on a Miner that needs no patch: excluded, or
\* already controlled by the set and appended
MsFilter(s) ==
    /\ msw[s].pc = "Filter"
    /\ msw[s].idx <= Len(msw[s].all)
    /\ LET m == msw[s].all[msw[s].idx] IN
       /\ shouldExcludeMiner(s, m) \/ m.owner # NoOwner
       /\ msw' = [msw EXCEPT
             ![s].idx = @ + 1,
             ![s].filtered = IF shouldExcludeMiner(s, m) THEN @ ELSE Append(@, m)]
    /\ UNCHANGED <<sets, miners, pods, blocked, mw, faults, user, chain, cms, cw, ledger>>

\* reconcile, the filter loop on an orphan: adoptOrphan's patch succeeds
MsAdopt(s) ==
    /\ msw[s].pc = "Filter"
    /\ msw[s].idx <= Len(msw[s].all)
    /\ LET m == msw[s].all[msw[s].idx] IN
       /\ ~shouldExcludeMiner(s, m)
       /\ m.owner = NoOwner
       /\ miners[m.name].exists
       /\ miners' = [miners EXCEPT ![m.name] = AdoptPatch(@, m, s)]
       /\ msw' = [msw EXCEPT
             ![s].idx = @ + 1,
             ![s].patched = @ \cup {m.name},
             ![s].filtered = Append(@, [m EXCEPT !.owner = s])]
       /\ mw' = Touch(m.name)
    /\ UNCHANGED <<sets, pods, blocked, faults, user, chain, cms, cw, ledger>>

\* reconcile, the filter loop on an orphan: the patch fails (the Miner is
\* gone, or the store answers with an error); the Miner is skipped
MsAdoptFail(s) ==
    /\ msw[s].pc = "Filter"
    /\ msw[s].idx <= Len(msw[s].all)
    /\ LET m == msw[s].all[msw[s].idx] IN
       /\ ~shouldExcludeMiner(s, m)
       /\ m.owner = NoOwner
       /\ ~miners[m.name].exists \/ faults > 0
       /\ faults' = IF miners[m.name].exists THEN faults - 1 ELSE faults
       /\ msw' = [msw EXCEPT ![s].idx = @ + 1]
    /\ UNCHANGED <<sets, miners, pods, blocked, mw, user, chain, cms, cw, ledger>>

\* syncReplicas: the switch on diff
MsSyncReplicas(s) ==
    /\ msw[s].pc = "Filter"
    /\ msw[s].idx > Len(msw[s].all)
    /\ LET w == msw[s]
           diff == ReplicaDiff(Len(w.filtered), w.replicas) IN
       msw' = [msw EXCEPT ![s] =
          IF diff < 0
          THEN [w EXCEPT !.pc = "Create", !.todo = -diff]
          ELSE IF diff > 0
          THEN [w EXCEPT !.pc = "Delete", !.idx = 1,
                         !.toDelete = getMinersToDelete(w.policy, w.filtered, diff)]
          ELSE [w EXCEPT !.pc = "Status", !.minersCreated = "True", !.resized = "True"]]
    /\ UNCHANGED <<sets, miners, pods, blocked, mw, faults, user, chain, cms, cw, ledger>>

\* createMiners, one iteration: r.Create with GenerateName (the store picks
\* the suffix)
MsCreate(s) ==
    /\ msw[s].pc = "Create"
    /\ msw[s].todo > 0
    /\ \E name \in GenNames(GenerateName(s)) :
          /\ ~miners[name].exists
          /\ miners' = [miners EXCEPT ![name] = computeDesiredMiner(s)]
          /\ msw' = [msw EXCEPT ![s].created = Append(@, name), ![s].pc = "Confirm"]
    /\ UNCHANGED <<sets, pods, blocked, mw, faults, user, chain, cms, cw, ledger>>

\* a wait that goes on to the next Miner whatever r.Get answers
WaitConfirmed_skip(found) == TRUE

\* waitForMinerCreation: the poll ends without error only when r.Get has
\* found the Miner; NotFound until the deadline ends it with an error
WaitConfirmed(found) == found

\* createMiners, one iteration: waitForMinerCreation on the Miner just
\* created.  r.Get finds the Miner, or answers NotFound at every tick until
\* the deadline (the Miner is gone, or the client's cache does not show it
\* in time); after the last Miner syncReplicas sets the conditions
MsConfirm(s) ==
    /\ msw[s].pc = "Confirm"
    /\ LET name == msw[s].created[Len(msw[s].created)] IN
       \E found \in {miners[name].exists, FALSE} :
          /\ found \/ ~miners[name].exists \/ faults > 0
          /\ faults' = IF ~found /\ miners[name].exists THEN faults - 1 ELSE faults
          /\ msw' = IF WaitConfirmed(found)
                    THEN [msw EXCEPT ![s] =
                            IF @.todo = 1
                            THEN [@ EXCEPT !.todo = 0, !.pc = "Status",
                                           !.confirmed = IF found THEN @ \cup {name} ELSE @,
                                           !.minersCreated = "True", !.resized = "Creating"]
                            ELSE [@ EXCEPT !.todo = @ - 1, !.pc = "Create",
                                           !.confirmed = IF found THEN @ \cup {name} ELSE @]]
                    ELSE MsFinish(s, "err", "Timeout")
    /\ UNCHANGED <<sets, miners, pods, blocked, mw, user, chain, cms, cw, ledger>>

\* createMiners: the generated name is taken, r.Create answers AlreadyExists
MsCreateCollision(s) ==
    /\ msw[s].pc = "Create"
    /\ msw[s].todo > 0
    /\ \E name \in GenNames(GenerateName(s)) : miners[name].exists
    /\ msw' = MsFinish(s, "err", "AlreadyExists")
    /\ UNCHANGED <<sets, miners, pods, blocked, mw, faults, user, chain, cms, cw, ledger>>

\* deleteMiners, one iteration; after the last one syncReplicas sets the
\* conditions
MsDelete(s) ==
    /\ msw[s].pc = "Delete"
    /\ msw[s].idx <= Len(msw[s].toDelete)
    /\ LET m == msw[s].toDelete[msw[s].idx]
           answer == IF miners[m.name].exists THEN "ok" ELSE "NotFound"
           next(w) == IF w.idx = Len(w.toDelete)
                      THEN [w EXCEPT !.idx = @ + 1, !.pc = "Status",
                                     !.minersCreated = "True", !.resized = "Deleting"]
                      ELSE [w EXCEPT !.idx = @ + 1]
       IN
       IF SkipDelete(m)
       THEN /\ msw' = [msw EXCEPT ![s] = next(@)]
            /\ UNCHANGED <<miners, mw>>
       ELSE /\ miners' = IF answer = "ok"
                         THEN [miners EXCEPT ![m.name] = StoreDeleteMiner(@)]
                         ELSE miners
            /\ mw' = Touch(m.name)
            /\ msw' = [msw EXCEPT ![s] =
                  IF DeleteFailed(answer)
                  THEN [IdleMsw EXCEPT !.pc = "Done", !.result = "err", !.err = answer]
                  ELSE next([@ EXCEPT !.delreq = @ \cup {m.name},
                                      !.delok = IF answer = "ok" /\ ~miners[m.name].del
                                               THEN @ \cup {m.name} ELSE @,
                                      !.answer = answer])]
    /\ UNCHANGED <<sets, pods, blocked, faults, user, chain, cms, cw, ledger>>

\* counters that take every ready Miner for available
updateStatusCounts_noGeneration(ms, templateLabel) ==
    LET I == 1..Len(ms)
        ready == Cardinality({i \in I : ms[i].phase = "Running"})
    IN [fullyLabeled |-> Cardinality({i \in I : templateLabel \subseteq ms[i].labels}),
        ready |-> ready,
        available |-> ready]

\* updateStatus: the loop over the Miners that counts the fully labelled
\* ones, the ready ones and the available ones
RECURSIVE updateStatusCounts(_, _)
updateStatusCounts(ms, templateLabel) ==
    IF ms = <<>> THEN [fullyLabeled |-> 0, ready |-> 0, available |-> 0]
    ELSE LET m == Head(ms)
             c == updateStatusCounts(Tail(ms), templateLabel)
         IN [fullyLabeled |-> c.fullyLabeled +
                              (IF templateLabel \subseteq m.labels THEN 1 ELSE 0),
             ready |-> c.ready + (IF m.phase = "Running" THEN 1 ELSE 0),
             available |-> c.available +
                           (IF m.phase = "Running" /\ m.og = m.gen THEN 1 ELSE 0)]

\* updateStatus: the MinersReady condition
MinersReadyCondition(ready, replicas) ==
    IF ready = replicas THEN "True" ELSE "Unavailable"

\* updateStatus: the counters and r.Status().Update
MsUpdateStatus(s) ==
    /\ msw[s].pc = "Status"
    /\ IF msw[s].stale \/ ~sets[s].exists
       THEN /\ msw' = MsFinish(s, "err", "Conflict")
            /\ UNCHANGED sets
       ELSE /\ LET c == updateStatusCounts(msw[s].filtered, TemplateLabels(s)) IN
               sets' = [sets EXCEPT ![s].statusReplicas = Len(msw[s].filtered),
                                    ![s].fullyLabeled = c.fullyLabeled,
                                    ![s].ready = c.ready,
                                    ![s].available = c.available,
                                    ![s].minersReady =
                                        MinersReadyCondition(c.ready, Len(msw[s].filtered)),
                                    ![s].resized = msw[s].resized,
                                    ![s].minersCreated = msw[s].minersCreated]
            /\ msw' = MsFinish(s, "ok", "")
    /\ UNCHANGED <<miners, pods, blocked, mw, faults, user, chain, cms, cw, ledger>>

\* a store call of the pass answers with an error (other than the adoption
\* patch, which MsAdoptFail covers): the pass returns the error
MsStoreError(s) ==
    /\ faults > 0
    /\ \/ msw[s].pc \in {"RemoveFin", "AddFin", "List", "Create", "Confirm", "Status"}
       \/ /\ msw[s].pc = "Delete"
          /\ ~SkipDelete(msw[s].toDelete[msw[s].idx])
    /\ faults' = faults - 1
    /\ msw' = MsFinish(s, "err", "Error")
    /\ UNCHANGED <<sets, miners, pods, blocked, mw, user, chain, cms, cw, ledger>>

----------------------------------------------------------------------------
(* External writers *)

MarkStale(s) == [msw EXCEPT ![s].stale = MsActive(s)]

\* the user patches spec.replicas
UserScale(s) ==
    /\ user > 0
    /\ sets[s].exists /\ ~sets[s].del
    /\ \E r \in 0..MaxReplicas :
          /\ r # sets[s].replicas
          /\ sets' = [sets EXCEPT ![s].replicas = r, ![s].gen = @ + 1]
    /\ msw' = MarkStale(s)
    /\ user' = user - 1
    /\ UNCHANGED <<miners, pods, blocked, mw, faults, chain, cms, cw, ledger>>

\* the user deletes the MinerSet
UserDeleteSet(s) ==
    /\ user > 0
    /\ sets[s].exists /\ ~sets[s].del
    /\ sets' = [sets EXCEPT ![s] = IF @.fin THEN [@ EXCEPT !.del = TRUE] ELSE AbsentSet]
    /\ msw' = MarkStale(s)
    /\ user' = user - 1
    /\ UNCHANGED <<miners, pods, blocked, mw, faults, chain, cms, cw, ledger>>

\* another writer adds a label to a Miner
UserLabelMiner(n) ==
    /\ user > 0
    /\ miners[n].exists
    /\ TierLabel \notin miners[n].labels
    /\ miners' = [miners EXCEPT ![n].labels = @ \cup {TierLabel}]
    /\ mw' = Touch(n)
    /\ user' = user - 1
    /\ UNCHANGED <<sets, pods, blocked, msw, faults, chain, cms, cw, ledger>>

\* another writer appends an owner reference that is no controller reference
UserAddOwnerRef(n) ==
    /\ user > 0
    /\ miners[n].exists
    /\ ForeignOwner \notin miners[n].refs
    /\ miners' = [miners EXCEPT ![n].refs = @ \cup {ForeignOwner}]
    /\ mw' = Touch(n)
    /\ user' = user - 1
    /\ UNCHANGED <<sets, pods, blocked, msw, faults, chain, cms, cw, ledger>>

\* the user deletes a Miner
UserDeleteMiner(n) ==
    /\ user > 0
    /\ miners[n].exists /\ ~miners[n].del
    /\ miners' = [miners EXCEPT ![n] = StoreDeleteMiner(@)]
    /\ mw' = Touch(n)
    /\ user' = user - 1
    /\ UNCHANGED <<sets, pods, blocked, msw, faults, chain, cms, cw, ledger>>

\* the garbage collector deletes a Miner whose controller owner is gone
GCMiner(n) ==
    /\ miners[n].exists /\ ~miners[n].del
    /\ miners[n].owner \in Sets
    /\ ~sets[miners[n].owner].exists
    /\ miners' = [miners EXCEPT ![n] = StoreDeleteMiner(@)]
    /\ mw' = Touch(n)
    /\ UNCHANGED <<sets, pods, blocked, msw, faults, user, chain, cms, cw, ledger>>

\* the kubelet finishes the graceful termination of a pod
KubeletPodGone(n) ==
    /\ pods[n].state = "terminating"
    /\ pods' = [pods EXCEPT ![n] = AbsentPod]
    /\ UNCHANGED <<sets, miners, blocked, msw, mw, faults, user, chain, cms, cw, ledger>>

\* the address the cluster gives the pod of a Miner
PodIPs(n) == <<n>>

\* the kubelet reports the pod of a Miner running and ready
KubeletRunning(n) ==
    /\ pods[n].state = "present"
    /\ ~(pods[n].phase = "Running" /\ pods[n].ready)
    /\ pods' = [pods EXCEPT ![n].phase = "Running", ![n].ready = TRUE,
                            ![n].ips = PodIPs(n)]
    /\ UNCHANGED <<sets, miners, blocked, msw, mw, faults, user, chain, cms, cw, ledger>>

\* the pod statuses a kubelet reports: phase, readiness, IPs and message
PodReports(n) ==
    {[phase |-> "Pending", ready |-> FALSE, ips |-> <<>>, message |-> ""],
     [phase |-> "Running", ready |-> FALSE, ips |-> PodIPs(n), message |-> ""],
     [phase |-> "Running", ready |-> TRUE, ips |-> PodIPs(n), message |-> ""],
     [phase |-> "Failed", ready |-> FALSE, ips |-> PodIPs(n), message |-> ""],
     [phase |-> "Failed", ready |-> FALSE, ips |-> PodIPs(n), message |-> "OOMKilled"],
     [phase |-> "Succeeded", ready |-> FALSE, ips |-> PodIPs(n), message |-> ""]}

WithReport(pod, r) ==
    [pod EXCEPT !.phase = r.phase, !.ready = r.ready, !.ips = r.ips,
                !.message = r.message]

\* a pod that was not created by the Miner controller, with a report
ReportedPod(state, r) == WithReport([AbsentPod EXCEPT !.state = state], r)

\* the kubelet reports a new status of the pod of a Miner
KubeletReport(n) ==
    /\ pods[n].state # "absent"
    /\ \E r \in PodReports(n) :
          /\ pods[n] # WithReport(pods[n], r)
          /\ pods' = [pods EXCEPT ![n] = WithReport(pods[n], r)]
    /\ UNCHANGED <<sets, miners, blocked, msw, mw, faults, user, chain, cms, cw, ledger>>

\* somebody deletes the pod of a Miner: it terminates gracefully
UserDeletePod(n) ==
    /\ pods[n].state = "present"
    /\ pods' = [pods EXCEPT ![n].state = "terminating"]
    /\ UNCHANGED <<sets, miners, blocked, msw, mw, faults, user, chain, cms, cw, ledger>>

----------------------------------------------------------------------------
(* MinerReconciler.Reconcile, one step per store call.  The controller runs *)
(* one worker; passes on different Miners touch different objects.          *)

MwActive == mw.pc \notin {"Idle", "Done"}

MwFinish(res, why) ==
    [IdleMw EXCEPT !.pc = "Done", !.name = mw.name, !.pdt = mw.pdt,
                   !.result = res, !.err = why]

\* reconcileDelete: timeout := defaultPodTimeout unless spec.podDeletionTimeout is set
DeletionTimeout(pdt) == IF pdt = NilTimeout THEN defaultPodTimeout ELSE pdt

\* a poll that gives up after the first run of its condition
PollMayRetry_never(elapsed, timeout) == FALSE

\* wait.PollUntilContextTimeout(ctx, interval, timeout, immediate = true, f):
\* f runs once at once, then at every tick that comes before the deadline
PollMayRetry(elapsed, timeout) == elapsed + podPollInterval < timeout

\* Reconcile: r.Get(ctx, req.NamespacedName, miner) and the branch on the
\* deletion timestamp
MinerGet(n) ==
    /\ ~MwActive
    /\ miners[n].exists \/ n = mw.name
    /\ mw' = IF ~miners[n].exists
             THEN [IdleMw EXCEPT !.pc = "Done", !.name = n, !.result = "ok",
                                 !.err = "NotFound"]
             ELSE [IdleMw EXCEPT
                     !.pc = IF miners[n].del THEN "DelStatus"
                            ELSE IF minerFinalizer \in miners[n].fins THEN "Pod"
                            ELSE "AddFin",
                     !.name = n,
                     !.fins = miners[n].fins,
                     !.del = miners[n].del,
                     !.pdt = miners[n].pdt,
                     !.mtype = miners[n].mtype,
                     !.restart = miners[n].restart,
                     !.st = miners[n].st]
    /\ UNCHANGED <<sets, miners, pods, blocked, msw, faults, user, chain, cms, cw, ledger>>

\* reconcileDelete: PodHealthy := False/Deleting and r.Status().Update
\* a delete pass that leaves the conditions as they are
MarkDeleting_keep(st) == st

\* reconcileDelete: condition.SetFalse(miner, MinerPodHealthyCondition,
\* DeletingReason, ...)
MarkDeleting(st) == [st EXCEPT !.healthy = "Deleting"]

\* reconcileDelete: the Deleting condition and r.Status().Update
MinerDelStatus ==
    /\ mw.pc = "DelStatus"
    /\ IF mw.stale \/ ~miners[mw.name].exists
       THEN /\ mw' = MwFinish("err", "Conflict")
            /\ UNCHANGED miners
       ELSE /\ mw' = [mw EXCEPT !.pc = "DelGetPod", !.st = MarkDeleting(mw.st)]
            /\ miners' = [miners EXCEPT ![mw.name].st = mw'.st]
    /\ UNCHANGED <<sets, pods, blocked, msw, faults, user, chain, cms, cw, ledger>>

\* reconcileDelete: r.Get of the pod
MinerDelGetPod ==
    /\ mw.pc = "DelGetPod"
    /\ mw' = IF pods[mw.name].state = "absent"
             THEN [mw EXCEPT !.pc = "DelRemoveFin"]
             ELSE [mw EXCEPT !.pc = "DelPoll", !.elapsed = 0]
    /\ UNCHANGED <<sets, miners, pods, blocked, msw, faults, user, chain, cms, cw, ledger>>

\* reconcileDelete, one run of the poll's condition: r.Delete(ctx, pod) is
\* accepted (the pod is removed at once, or left terminating for the
\* kubelet) or answers NotFound
MinerDelPollOk ==
    /\ mw.pc = "DelPoll"
    /\ mw.name \notin blocked \/ pods[mw.name].state = "absent"
    /\ \E after \in {"absent", "terminating"} :
          /\ pods[mw.name].state = "absent" => after = "absent"
          /\ pods' = [pods EXCEPT ![mw.name] =
                IF after = "absent" THEN AbsentPod ELSE [@ EXCEPT !.state = after]]
    /\ mw' = [mw EXCEPT !.pc = "DelRemoveFin"]
    /\ UNCHANGED <<sets, miners, blocked, msw, faults, user, chain, cms, cw, ledger>>

\* reconcileDelete, one run of the poll's condition: r.Delete(ctx, pod)
\* answers with an error (the store rejects it, or the poll's context has
\* expired already); the poll runs it again at the next tick before the
\* deadline and otherwise ends with the deadline error: the pass sets
\* PodHealthy False/MinerDeletionFailed on its copy of the Miner and returns
\* the error, and the copy is dropped with the pass
MinerDelPollErr ==
    /\ mw.pc = "DelPoll"
    /\ pods[mw.name].state # "absent"
    /\ mw.name \in blocked \/ DeletionTimeout(mw.pdt) = 0
    /\ mw' = IF PollMayRetry(mw.elapsed, DeletionTimeout(mw.pdt))
             THEN [mw EXCEPT !.elapsed = @ + podPollInterval]
             ELSE MwFinish("err", "Timeout")
    /\ UNCHANGED <<sets, miners, pods, blocked, msw, faults, user, chain, cms, cw, ledger>>

\* reconcileDelete: remove the miner finalizer with r.Update
MinerDelRemoveFin ==
    /\ mw.pc = "DelRemoveFin"
    /\ IF minerFinalizer \notin mw.fins
       THEN /\ mw' = MwFinish("ok", "")
            /\ UNCHANGED miners
       ELSE IF mw.stale \/ ~miners[mw.name].exists
       THEN /\ mw' = MwFinish("err", "Conflict")
            /\ UNCHANGED miners
       ELSE /\ miners' = [miners EXCEPT ![mw.name] =
                  IF mw.fins \ {minerFinalizer} = {} /\ @.del
                  THEN AbsentMiner
                  ELSE [@ EXCEPT !.fins = mw.fins \ {minerFinalizer}]]
            /\ mw' = MwFinish("ok", "FinalizerRemoved")
    /\ UNCHANGED <<sets, pods, blocked, msw, faults, user, chain, cms, cw, ledger>>

\* reconcile: add the miner finalizer with r.Update
MinerAddFin ==
    /\ mw.pc = "AddFin"
    /\ IF mw.stale \/ ~miners[mw.name].exists
       THEN /\ mw' = MwFinish("err", "Conflict")
            /\ UNCHANGED miners
       ELSE /\ miners' = [miners EXCEPT ![mw.name].fins = mw.fins \cup {minerFinalizer}]
            /\ mw' = [mw EXCEPT !.pc = "Pod", !.fins = @ \cup {minerFinalizer}]
    /\ UNCHANGED <<sets, pods, blocked, msw, faults, user, chain, cms, cw, ledger>>

\* a pod construction that uses the fallback image for every miner type
createPodSpec_fallback(miner) ==
    [AbsentPod EXCEPT !.state = "present", !.phase = "Pending",
                      !.owner = miner.name, !.image = "busybox",
                      !.restart = IF miner.restart = "" THEN "Always" ELSE miner.restart]

\* createPodSpec, as the store holds it under the Miner's name after
\* r.Create (the store sets the new pod's phase to Pending)
createPodSpec(miner) ==
    [AbsentPod EXCEPT !.state = "present", !.phase = "Pending",
                      !.owner = miner.name,
                      !.image = IF miner.mtype = "small" THEN "nginx:alpine"
                                ELSE IF miner.mtype = "medium" THEN "nginx"
                                ELSE IF miner.mtype = "large" THEN "redis:alpine"
                                ELSE "busybox",
                      !.restart = IF miner.restart = "" THEN "Always" ELSE miner.restart]

\* reconcilePod: r.Get of the pod and, when it is not found, r.Create, the
\* pod reference and InfrastructureReady := True
MinerReconcilePod ==
    /\ mw.pc = "Pod"
    /\ pods' = [pods EXCEPT ![mw.name] = IF @.state = "absent" THEN createPodSpec(mw) ELSE @]
    /\ mw' = IF pods[mw.name].state = "absent"
             THEN [mw EXCEPT !.pc = "Sync", !.st.podRef = Ref(mw.name),
                             !.st.infra = "True"]
             ELSE [mw EXCEPT !.pc = "Sync"]
    /\ UNCHANGED <<sets, miners, blocked, msw, faults, user, chain, cms, cw, ledger>>

\* reconcile: `if miner.Status.Phase == "" { ... = MinerPhaseProvisioning }`
InitialPhase(st) == IF st.phase = "" THEN [st EXCEPT !.phase = "Provisioning"] ELSE st

\* a sync that writes no failure reason
syncPodStatus_noReason(st, pod) ==
    IF pod.state = "absent" THEN [st EXCEPT !.phase = "Pending", !.healthy = "PodNotFound"]
    ELSE IF pod.phase = "Running" /\ pod.ready
    THEN [st EXCEPT !.phase = "Running", !.healthy = "True", !.boot = "True",
                    !.addrs = pod.ips]
    ELSE IF pod.phase \in {"Running", "Pending"}
    THEN [st EXCEPT !.phase = "Provisioning", !.healthy = "Provisioning"]
    ELSE IF pod.phase = "Failed"
    THEN [st EXCEPT !.phase = "Failed", !.healthy = "Failed"]
    ELSE st

\* syncPodStatus: the Miner's status from the pod that r.Get returned
syncPodStatus(st, pod) ==
    IF pod.state = "absent"
    THEN [st EXCEPT !.phase = "Pending", !.healthy = "PodNotFound"]
    ELSE CASE pod.phase = "Running" ->
                 IF pod.ready
                 THEN [st EXCEPT !.phase = "Running", !.healthy = "True",
                                 !.boot = "True", !.addrs = pod.ips]
                 ELSE [st EXCEPT !.phase = "Provisioning", !.healthy = "Provisioning"]
           [] pod.phase = "Pending" ->
                 [st EXCEPT !.phase = "Provisioning", !.healthy = "Provisioning"]
           [] pod.phase = "Failed" ->
                 [st EXCEPT !.phase = "Failed", !.healthy = "Failed",
                            !.fail = IF pod.message # "" THEN pod.message
                                     ELSE "Pod failed"]
           [] OTHER -> st

\* reconcile: the initial phase and syncPodStatus with its r.Get of the pod
MinerSyncPodStatus ==
    /\ mw.pc = "Sync"
    /\ mw' = [mw EXCEPT !.pc = "Status",
                        !.pod = pods[mw.name],
                        !.st = syncPodStatus(InitialPhase(mw.st), pods[mw.name])]
    /\ UNCHANGED <<sets, miners, pods, blocked, msw, faults, user, chain, cms, cw, ledger>>

\* reconcile: r.Status().Update
MinerStatus ==
    /\ mw.pc = "Status"
    /\ IF mw.stale \/ ~miners[mw.name].exists
       THEN /\ mw' = MwFinish("err", "Conflict")
            /\ UNCHANGED miners
       ELSE /\ miners' = [miners EXCEPT ![mw.name].st = mw.st]
            /\ mw' = MwFinish("ok", "")
    /\ UNCHANGED <<sets, pods, blocked, msw, faults, user, chain, cms, cw, ledger>>

\* a store call of the pass answers with an error: the pass returns it
MinerStoreError ==
    /\ faults > 0
    /\ mw.pc \in {"DelStatus", "DelGetPod", "DelRemoveFin", "AddFin", "Pod", "Sync", "Status"}
    /\ faults' = faults - 1
    /\ mw' = MwFinish("err", "Error")
    /\ UNCHANGED <<sets, miners, pods, blocked, msw, user, chain, cms, cw, ledger>>

----------------------------------------------------------------------------
(* ChainReconciler.Reconcile, one step per store call *)

IdleCw ==
    [pc |-> "Idle", fin |-> FALSE, gen |-> 0, st |-> EmptyChainStatus,
     stale |-> FALSE, result |-> "none", err |-> ""]

CwActive == cw.pc \notin {"Idle", "Done"}

CwFinish(res, why) == [IdleCw EXCEPT !.pc = "Done", !.result = res, !.err = why]

\* a write to the Chain by somebody else makes the object a pass holds stale
TouchChain == [cw EXCEPT !.stale = CwActive]

\* createConfigMap: the object it returns
createConfigMap(g) ==
    [name |-> EmptyName, generateName |-> g, labels |-> {ChainLabel(g)}, owner |-> g]

\* createMinerForChain: the object it returns
createMinerForChain(g) ==
    [name |-> ChainMinerName(g), labels |-> {ChainLabel(g)}, owner |-> g]

\* the ConfigMaps and the Miners that carry the Chain's label
ChainConfigMaps(g) == {k \in ConfigMapNames : cms[k].exists /\ ChainLabel(g) \in cms[k].labels}
ChainMiners(g) == {n \in Names : miners[n].exists /\ ChainLabel(g) \in miners[n].labels}

\* IsConfigMapReconciled / IsMinerReconciled: `len(list.Items) != 0`
IsConfigMapReconciled(g) == ChainConfigMaps(g) # {}
IsMinerReconciled(g) == ChainMiners(g) # {}

\* a pass that does not stamp the generation
StampObservedGeneration_skip(st, gen) == st

\* reconcile: `chain.Status.ObservedGeneration = chain.Generation`
StampObservedGeneration(st, gen) == [st EXCEPT !.og = gen]

\* Reconcile: r.Get and the branch on the deletion timestamp
ChGet ==
    /\ ~CwActive
    /\ chain.exists
    /\ cw' = [IdleCw EXCEPT
                !.pc = IF chain.del THEN "RemoveFin"
                       ELSE IF chain.fin THEN "ConfigMap" ELSE "AddFin",
                !.fin = chain.fin,
                !.gen = chain.gen,
                !.st = chain.st]
    /\ UNCHANGED <<sets, miners, pods, blocked, msw, mw, faults, user, chain, cms, ledger>>

\* reconcileDelete: remove the finalizer with r.Update
ChRemoveFinalizer ==
    /\ cw.pc = "RemoveFin"
    /\ IF ~cw.fin
       THEN /\ cw' = CwFinish("ok", "")
            /\ UNCHANGED chain
       ELSE IF cw.stale \/ ~chain.exists
       THEN /\ cw' = CwFinish("err", "Conflict")
            /\ UNCHANGED chain
       ELSE /\ chain' = AbsentChain
            /\ cw' = CwFinish("ok", "")
    /\ UNCHANGED <<sets, miners, pods, blocked, msw, mw, faults, user, cms, ledger>>

\* reconcile: add the finalizer with r.Update
ChAddFinalizer ==
    /\ cw.pc = "AddFin"
    /\ IF cw.stale \/ ~chain.exists
       THEN /\ cw' = CwFinish("err", "Conflict")
            /\ UNCHANGED chain
       ELSE /\ chain' = [chain EXCEPT !.fin = TRUE]
            /\ cw' = [cw EXCEPT !.pc = "ConfigMap", !.fin = TRUE]
    /\ UNCHANGED <<sets, miners, pods, blocked, msw, mw, faults, user, cms, ledger>>

\* reconcileConfigMap
ChReconcileConfigMap ==
    /\ cw.pc = "ConfigMap"
    /\ cw' = IF IsConfigMapReconciled(ChainName)
             THEN [cw EXCEPT !.pc = "Miner"]
             ELSE [cw EXCEPT !.pc = "Miner",
                             !.st.configMapRef = Ref(createConfigMap(ChainName).name),
                             !.st.configMapsCreated = "True"]
    /\ UNCHANGED <<sets, miners, pods, blocked, msw, mw, faults, user, chain, cms, ledger>>

\* reconcileMiner
ChReconcileMiner ==
    /\ cw.pc = "Miner"
    /\ cw' = IF IsMinerReconciled(ChainName)
             THEN [cw EXCEPT !.pc = "Status"]
             ELSE [cw EXCEPT !.pc = "Status",
                             !.st.minerRef = IF cw.st.minerRef.set THEN @
                                             ELSE Ref(createMinerForChain(ChainName).name),
                             !.st.minersCreated = "True"]
    /\ UNCHANGED <<sets, miners, pods, blocked, msw, mw, faults, user, chain, cms, ledger>>

\* reconcile: stamp the observed generation and r.Status().Update
ChUpdateStatus ==
    /\ cw.pc = "Status"
    /\ IF cw.stale \/ ~chain.exists
       THEN /\ cw' = CwFinish("err", "Conflict")
            /\ UNCHANGED chain
       ELSE /\ chain' = [chain EXCEPT !.st = StampObservedGeneration(cw.st, cw.gen)]
            /\ cw' = CwFinish("ok", "")
    /\ UNCHANGED <<sets, miners, pods, blocked, msw, mw, faults, user, cms, ledger>>

\* a store call of the pass fails with an error that is no conflict
ChStoreError ==
    /\ faults > 0
    /\ cw.pc \in {"RemoveFin", "AddFin", "ConfigMap", "Miner", "Status"}
    /\ faults' = faults - 1
    /\ cw' = CwFinish("err", "Error")
    /\ UNCHANGED <<sets, miners, pods, blocked, msw, mw, user, chain, cms, ledger>>

\* the user edits the Chain's spec
UserUpdateChain ==
    /\ user > 0
    /\ chain.exists /\ ~chain.del
    /\ chain.gen < MaxChainGen
    /\ chain' = [chain EXCEPT !.gen = @ + 1]
    /\ cw' = TouchChain
    /\ user' = user - 1
    /\ UNCHANGED <<sets, miners, pods, blocked, msw, mw, faults, cms, ledger>>

\* the user deletes the Chain
UserDeleteChain ==
    /\ user > 0
    /\ chain.exists /\ ~chain.del
    /\ chain' = IF chain.fin THEN [chain EXCEPT !.del = TRUE] ELSE AbsentChain
    /\ cw' = TouchChain
    /\ user' = user - 1
    /\ UNCHANGED <<sets, miners, pods, blocked, msw, mw, faults, cms, ledger>>

\* the user creates a ConfigMap with the Chain's label
UserCreateConfigMap(k) ==
    /\ user > 0
    /\ ~cms[k].exists
    /\ cms' = [cms EXCEPT ![k] = [exists |-> TRUE, labels |-> {ChainLabel(ChainName)},
                                  owner |-> NoOwner]]
    /\ user' = user - 1
    /\ UNCHANGED <<sets, miners, pods, blocked, msw, mw, faults, chain, cw, ledger>>

\* the user creates a Miner with the Chain's label
UserCreateChainMiner(n) ==
    /\ user > 0
    /\ ~miners[n].exists
    /\ miners' = [miners EXCEPT ![n] =
          [exists |-> TRUE, labels |-> {ChainLabel(ChainName)}, owner |-> NoOwner,
           refs |-> {}, fins |-> {}, del |-> FALSE, pdt |-> NilTimeout, mtype |-> "",
           restart |-> "", gen |-> 1, st |-> EmptyStatus]]
    /\ user' = user - 1
    /\ UNCHANGED <<sets, pods, blocked, msw, mw, faults, chain, cms, cw, ledger>>

----------------------------------------------------------------------------
(* Package condition: the list of conditions of a resource *)

LedgerTypes == {"MinersCreated", "Resized", "MinersReady"}
LedgerReasons == {"Failed", "Creating"}
LedgerMessages == {"", "m"}

NoCondition == [type |-> "", status |-> "", reason |-> "", message |-> "", time |-> 0]

EmptyLedger == [conds |-> <<>>, now |-> 0, last |-> NoCondition]

\* TrueCondition, FalseCondition, UnknownCondition at the time metav1.Now() gives
TrueCondition(t, now) ==
    [type |-> t, status |-> "True", reason |-> "", message |-> "", time |-> now]

FalseCondition(t, reason, message, now) ==
    [type |-> t, status |-> "False", reason |-> reason, message |-> message, time |-> now]

UnknownCondition(t, reason, message, now) ==
    [type |-> t, status |-> "Unknown", reason |-> reason, message |-> message, time |-> now]

\* the index of the first entry of a type, 0 when there is none
IndexOfType(conds, t) ==
    IF \E i \in 1..Len(conds) : conds[i].type = t
    THEN CHOOSE i \in 1..Len(conds) :
            /\ conds[i].type = t
            /\ \A j \in 1..(i - 1) : conds[j].type # t
    ELSE 0

\* Get: the first condition of the type, NoCondition for nil
Get(conds, t) == IF IndexOfType(conds, t) = 0 THEN NoCondition ELSE conds[IndexOfType(conds, t)]

\* a setter that replaces the entry of the type whatever it holds
setCondition_replace(conds, c) ==
    IF IndexOfType(conds, c.type) = 0 THEN Append(conds, c)
    ELSE [conds EXCEPT ![IndexOfType(conds, c.type)] = c]

\* setCondition: the first entry of the type is replaced when status, reason
\* or message differ and kept otherwise; a new type is appended
setCondition(conds, c) ==
    LET i == IndexOfType(conds, c.type) IN
    IF i = 0 THEN Append(conds, c)
    ELSE IF \/ conds[i].status # c.status
            \/ conds[i].reason # c.reason
            \/ conds[i].message # c.message
         THEN [conds EXCEPT ![i] = c]
         ELSE conds

\* Set at a time that is not before the time of the last call
LedgerSet(c) ==
    /\ c.time \in {ledger.now, ledger.now + 1}
    /\ c.time <= MaxClock
    /\ ledger' = [conds |-> setCondition(ledger.conds, c), now |-> c.time, last |-> c]
    /\ UNCHANGED <<sets, miners, pods, blocked, msw, mw, faults, user, chain, cms, cw>>

SetTrue(t) == \E now \in 0..MaxClock : LedgerSet(TrueCondition(t, now))

SetFalse(t, reason, message) ==
    \E now \in 0..MaxClock : LedgerSet(FalseCondition(t, reason, message, now))

SetUnknown(t, reason, message) ==
    \E now \in 0..MaxClock : LedgerSet(UnknownCondition(t, reason, message, now))

----------------------------------------------------------------------------
(* Specifications *)

NewSet(r, p) ==
    [AbsentSet EXCEPT !.exists = TRUE, !.gen = 1, !.replicas = r, !.policy = p]

\* a Miner the user created, labelled for the selector
UserMiner(o, f, d, t) ==
    [exists |-> TRUE, labels |-> {AppLabel}, owner |-> o, refs |-> {}, fins |-> f,
     del |-> d, pdt |-> t, mtype |-> "", restart |-> "", gen |-> 1,
     st |-> EmptyStatus]

\* the states a user-created Miner can be in when a MinerSet pass meets it:
\* fresh, reconciled by the Miner controller (finalizer set), being deleted,
\* or controlled by another object
UserMinerStates ==
    {AbsentMiner,
     UserMiner(NoOwner, {}, FALSE, NilTimeout),
     UserMiner(NoOwner, {minerFinalizer}, FALSE, NilTimeout),
     UserMiner(NoOwner, {minerFinalizer}, TRUE, NilTimeout),
     UserMiner(ForeignOwner, {minerFinalizer}, FALSE, NilTimeout)}

InitMiners(m1, m2) ==
    miners = [n \in Names |-> IF n = <<"u", 1>> THEN m1
                              ELSE IF n = <<"u", 2>> THEN m2 ELSE AbsentMiner]

\* no Chain in the namespace; the followed condition list is empty
InitNoChain ==
    /\ chain = AbsentChain
    /\ cms = [k \in ConfigMapNames |-> AbsentConfigMap]
    /\ cw = IdleCw
    /\ ledger = EmptyLedger

InitWorkers ==
    /\ pods = [n \in Names |-> AbsentPod]
    /\ msw = [s \in Sets |-> IdleMsw]
    /\ mw = IdleMw
    /\ InitNoChain

\* The MinerSet controller on one MinerSet A, with the user and the garbage
\* collector as the other writers
Init ==
    /\ \E r \in 0..MaxReplicas, p \in {"Newest", "Oldest"} :
          sets = [s \in Sets |-> IF s = "A" THEN NewSet(r, p) ELSE AbsentSet]
    /\ \E m1 \in UserMinerStates, m2 \in UserMinerStates : InitMiners(m1, m2)
    /\ blocked = {}
    /\ InitWorkers
    /\ faults = MaxFaults
    /\ user = MaxUser

\* the steps of a pass on a MinerSet that is not being deleted
MsPass(s) ==
    \/ MsGet(s)
    \/ MsAddFinalizer(s)
    \/ MsList(s)
    \/ MsFilter(s)
    \/ MsAdopt(s)
    \/ MsSyncReplicas(s)
    \/ MsCreate(s)
    \/ MsConfirm(s)
    \/ MsDelete(s)
    \/ MsUpdateStatus(s)

MinerStep ==
    \/ MinerDelStatus
    \/ MinerDelGetPod
    \/ MinerDelPollOk
    \/ MinerDelRemoveFin
    \/ MinerAddFin
    \/ MinerReconcilePod
    \/ MinerSyncPodStatus
    \/ MinerStatus

MinerPass ==
    \/ \E n \in Names : MinerGet(n)
    \/ MinerStep

SetWriters ==
    \/ \E s \in Sets : UserScale(s)
    \/ \E s \in Sets : UserDeleteSet(s)
    \/ \E n \in Names : UserDeleteMiner(n)
    \/ \E n \in Names : GCMiner(n)

Next ==
    \/ MsPass("A")
    \/ MsRemoveFinalizer("A")
    \/ MsAdoptFail("A")
    \/ MsCreateCollision("A")
    \/ MsStoreError("A")
    \/ SetWriters

Spec == Init /\ [][Next]_vars

\* The Miner controller on user-created Miners, with the user and the
\* kubelet as the other writers
InitMiner ==
    /\ sets = [s \in Sets |-> AbsentSet]
    /\ \E t1 \in {NilTimeout, 0}, m2 \in {AbsentMiner, UserMiner(NoOwner, {}, FALSE, NilTimeout)} :
          InitMiners(UserMiner(NoOwner, {}, FALSE, t1), m2)
    /\ blocked \in {{}, {<<"u", 1>>}}
    /\ InitWorkers
    /\ faults = MaxFaults
    /\ user = MaxUser

NextMiner ==
    \/ MinerPass
    \/ MinerDelPollErr
    \/ MinerStoreError
    \/ \E n \in Names : UserDeleteMiner(n)
    \/ \E n \in Names : KubeletPodGone(n)

SpecMiner == InitMiner /\ [][NextMiner]_vars

\* Two MinerSets A and B with the same selector
InitTwo ==
    /\ \E ra \in 0..MaxReplicasTwo, rb \in 0..MaxReplicasTwo :
          sets = [s \in Sets |-> NewSet(IF s = "A" THEN ra ELSE rb, "Newest")]
    /\ \E m1 \in {UserMiner(NoOwner, {}, FALSE, NilTimeout),
                  UserMiner(NoOwner, {minerFinalizer}, FALSE, NilTimeout)} :
          InitMiners(m1, AbsentMiner)
    /\ blocked = {}
    /\ InitWorkers
    /\ faults = 0
    /\ user = 0

NextTwo == \E s \in Sets : MsPass(s)

SpecTwo == InitTwo /\ [][NextTwo]_vars

\* Both controllers on one MinerSet A, no store errors; the user may still
\* patch spec.replicas.  Every pass keeps being re-invoked (RequeueAfter),
\* every queued Miner is reconciled in the end, and the kubelet ends every
\* termination.
InitLive ==
    /\ sets = [s \in Sets |-> IF s = "A" THEN NewSet(MaxReplicas, "Newest") ELSE AbsentSet]
    /\ InitMiners(UserMiner(NoOwner, {}, FALSE, NilTimeout), AbsentMiner)
    /\ blocked = {}
    /\ InitWorkers
    /\ faults = 0
    /\ user = MaxUser

NextLive ==
    \/ MsPass("A")
    \/ MinerPass
    \/ UserScale("A")
    \/ \E n \in Names : KubeletPodGone(n)

Fairness ==
    /\ WF_vars(MsPass("A"))
    /\ WF_vars(MinerStep)
    /\ \A n \in Names : SF_vars(MinerGet(n))
    /\ \A n \in Names : WF_vars(KubeletPodGone(n))

SpecLive == InitLive /\ [][NextLive]_vars /\ Fairness

\* The same two controllers and writers on a MinerSet of at most
\* MaxRetryReplicas replicas and one orphan Miner
InitRetry ==
    /\ \E r \in 0..MaxRetryReplicas :
          sets = [s \in Sets |-> IF s = "A" THEN NewSet(r, "Newest") ELSE AbsentSet]
    /\ InitMiners(UserMiner(NoOwner, {}, FALSE, NilTimeout), AbsentMiner)
    /\ blocked = {}
    /\ InitWorkers
    /\ faults = 0
    /\ user = MaxUser

SpecRetry == InitRetry /\ [][NextLive]_vars /\ Fairness

\* The MinerSet controller on one MinerSet A with up to MaxListed Miners
\* (created by the set, or orphans of the user) and every delete policy
InitSelect ==
    /\ \E r \in 0..MaxReplicas, p \in Policies :
          sets = [s \in Sets |-> IF s = "A" THEN NewSet(r, p) ELSE AbsentSet]
    /\ \E S \in SUBSET (UserNames \cup GenNames("A")) :
          /\ Cardinality(S) <= MaxListed
          /\ miners = [n \in Names |->
                IF n \notin S THEN AbsentMiner
                ELSE IF n \in UserNames THEN UserMiner(NoOwner, {}, FALSE, NilTimeout)
                ELSE computeDesiredMiner("A")]
    /\ blocked = {}
    /\ InitWorkers
    /\ faults = 0
    /\ user = 0

NextSelect == MsPass("A")

SpecSelect == InitSelect /\ [][NextSelect]_vars

\* The MinerSet controller on one MinerSet A whose matching Miners differ in
\* labels, phase and generations (status.observedGeneration is whatever the
\* last writer of the Miner's status left there)
ReportedStatus ==
    {[EmptyStatus EXCEPT !.phase = ph, !.og = g] :
        ph \in {"", "Provisioning", "Running"}, g \in 0..MaxGeneration}

StatusMiners ==
    {[UserMiner(o, {}, FALSE, NilTimeout) EXCEPT !.labels = l, !.st = st, !.gen = g] :
        o \in {NoOwner, "A"}, l \in {{AppLabel}, {AppLabel, TierLabel}},
        st \in ReportedStatus, g \in 1..MaxGeneration}

InitStatus ==
    /\ \E r \in 0..MaxReplicas :
          sets = [s \in Sets |-> IF s = "A" THEN NewSet(r, "Newest") ELSE AbsentSet]
    /\ \E m1 \in StatusMiners \cup {AbsentMiner}, m2 \in StatusMiners \cup {AbsentMiner} :
          InitMiners(m1, m2)
    /\ blocked = {}
    /\ InitWorkers
    /\ faults = 0
    /\ user = 0

NextStatus == MsPass("A")

SpecStatus == InitStatus /\ [][NextStatus]_vars

\* The MinerSet controller and the Miner controller together on one
\* MinerSet A, with the kubelet bringing the pods up
InitReady ==
    /\ \E r \in 0..MaxReplicas :
          sets = [s \in Sets |-> IF s = "A" THEN NewSet(r, "Newest") ELSE AbsentSet]
    /\ \E m1 \in {AbsentMiner, UserMiner(NoOwner, {}, FALSE, NilTimeout)} :
          InitMiners(m1, AbsentMiner)
    /\ blocked = {}
    /\ InitWorkers
    /\ faults = 0
    /\ user = 0

NextReady ==
    \/ MsPass("A")
    \/ MinerPass
    \/ \E n \in Names : KubeletRunning(n)
    \/ \E n \in Names : KubeletPodGone(n)

SpecReady == InitReady /\ [][NextReady]_vars

\* The Miner controller on one Miner that is not being deleted; its pod
\* may exist before the first pass, the kubelet reports any status, and the
\* pod can be deleted under the controller
MinerReconcilePass ==
    \/ MinerGet(<<"u", 1>>)
    \/ MinerAddFin
    \/ MinerReconcilePod
    \/ MinerSyncPodStatus
    \/ MinerStatus

InitPhase ==
    /\ sets = [s \in Sets |-> AbsentSet]
    /\ InitMiners(UserMiner(NoOwner, {}, FALSE, NilTimeout), AbsentMiner)
    /\ blocked = {}
    /\ \E p \in {AbsentPod} \cup {ReportedPod("present", r) : r \in PodReports(<<"u", 1>>)} :
          pods = [n \in Names |-> IF n = <<"u", 1>> THEN p ELSE AbsentPod]
    /\ msw = [s \in Sets |-> IdleMsw]
    /\ mw = IdleMw
    /\ InitNoChain
    /\ faults = MaxFaults
    /\ user = 0

NextPhase ==
    \/ MinerReconcilePass
    \/ MinerStoreError
    \/ KubeletReport(<<"u", 1>>)
    \/ UserDeletePod(<<"u", 1>>)
    \/ KubeletPodGone(<<"u", 1>>)

SpecPhase == InitPhase /\ [][NextPhase]_vars

\* The Miner controller on one new Miner of any miner type and restart
\* policy; store errors end passes early and the pod can be deleted
InitPod ==
    /\ sets = [s \in Sets |-> AbsentSet]
    /\ \E ty \in MinerTypes, rp \in RestartPolicies :
          InitMiners([UserMiner(NoOwner, {}, FALSE, NilTimeout)
                         EXCEPT !.mtype = ty, !.restart = rp], AbsentMiner)
    /\ blocked = {}
    /\ InitWorkers
    /\ faults = MaxFaults
    /\ user = 0

NextPod ==
    \/ MinerReconcilePass
    \/ MinerStoreError
    \/ UserDeletePod(<<"u", 1>>)
    \/ KubeletPodGone(<<"u", 1>>)

SpecPod == InitPod /\ [][NextPod]_vars

\* One MinerSet and one orphan Miner that matches its selector, with the
\* Miner controller and a user as the other writers of the Miner
InitAdopt ==
    /\ \E r \in 0..MaxReplicas : sets = [s \in Sets |-> IF s = "A" THEN NewSet(r, "Newest") ELSE AbsentSet]
    /\ InitMiners(UserMiner(NoOwner, {}, FALSE, NilTimeout), AbsentMiner)
    /\ blocked = {}
    /\ InitWorkers
    /\ faults = 0
    /\ user = MaxUser

NextAdopt ==
    \/ MsPass("A")
    \/ MinerReconcilePass
    \/ UserLabelMiner(<<"u", 1>>)
    \/ UserAddOwnerRef(<<"u", 1>>)

SpecAdopt == InitAdopt /\ [][NextAdopt]_vars

\* the statuses earlier passes of the Miner controller leave on a Miner
ReconciledStatuses ==
    {syncPodStatus(InitialPhase([EmptyStatus EXCEPT !.infra = "True",
                                                      !.podRef = Ref(<<"u", 1>>)]),
                   ReportedPod("present", r)) : r \in PodReports(<<"u", 1>>)}

\* The Miner controller on one Miner that is being deleted, or gets deleted
\* by the user: reconciled before with any status, with any pod deletion
\* timeout, and with a pod whose delete request may be rejected every time
InitDelete ==
    /\ sets = [s \in Sets |-> AbsentSet]
    /\ \E st \in ReconciledStatuses \cup {EmptyStatus},
          t \in {NilTimeout, 0, ShortTimeout},
          d \in BOOLEAN, f \in {{}, {minerFinalizer}} :
          /\ d => f # {}
          /\ f = {} => st = EmptyStatus
          /\ InitMiners([UserMiner(NoOwner, f, d, t) EXCEPT !.st = st], AbsentMiner)
    /\ blocked \in {{}, {<<"u", 1>>}}
    /\ \E p \in {AbsentPod} \cup {ReportedPod("present", r) : r \in PodReports(<<"u", 1>>)} :
          pods = [n \in Names |-> IF n = <<"u", 1>> THEN p ELSE AbsentPod]
    /\ msw = [s \in Sets |-> IdleMsw]
    /\ mw = IdleMw
    /\ InitNoChain
    /\ faults = MaxFaults
    /\ user = MaxUser

NextDelete ==
    \/ MinerPass
    \/ MinerDelPollErr
    \/ MinerStoreError
    \/ UserDeleteMiner(<<"u", 1>>)
    \/ KubeletPodGone(<<"u", 1>>)

SpecDelete == InitDelete /\ [][NextDelete]_vars

\* The Chain controller on one new Chain, with the user as the other writer
NewChain == [AbsentChain EXCEPT !.exists = TRUE, !.gen = 1]

InitChain ==
    /\ sets = [s \in Sets |-> AbsentSet]
    /\ InitMiners(AbsentMiner, AbsentMiner)
    /\ blocked = {}
    /\ pods = [n \in Names |-> AbsentPod]
    /\ msw = [s \in Sets |-> IdleMsw]
    /\ mw = IdleMw
    /\ chain = NewChain
    /\ cms = [k \in ConfigMapNames |-> AbsentConfigMap]
    /\ cw = IdleCw
    /\ ledger = EmptyLedger
    /\ faults = MaxFaults
    /\ user = MaxChainWrites

ChainPass ==
    \/ ChGet
    \/ ChAddFinalizer
    \/ ChReconcileConfigMap
    \/ ChReconcileMiner
    \/ ChUpdateStatus

NextChain ==
    \/ ChainPass
    \/ ChRemoveFinalizer
    \/ ChStoreError
    \/ UserUpdateChain
    \/ UserDeleteChain
    \/ \E k \in ConfigMapNames : UserCreateConfigMap(k)
    \/ \E n \in {ChainMinerName(ChainName), <<"u", 1>>} : UserCreateChainMiner(n)

SpecChain == InitChain /\ [][NextChain]_vars

\* The setters of package condition on one resource that starts without
\* conditions
InitLedger ==
    /\ sets = [s \in Sets |-> AbsentSet]
    /\ InitMiners(AbsentMiner, AbsentMiner)
    /\ blocked = {}
    /\ InitWorkers
    /\ faults = 0
    /\ user = 0

NextLedger ==
    \/ \E t \in LedgerTypes : SetTrue(t)
    \/ \E t \in LedgerTypes, r \in LedgerReasons, m \in LedgerMessages : SetFalse(t, r, m)
    \/ \E t \in LedgerTypes, r \in LedgerReasons, m \in LedgerMessages : SetUnknown(t, r, m)

SpecLedger == InitLedger /\ [][NextLedger]_vars

\* The Chain controller on one Chain and the MinerSet controller on one
\* MinerSet with an orphan Miner; the user deletes the Chain and the set
InitFrame ==
    /\ \E r \in 0..MaxReplicas :
          sets = [s \in Sets |-> IF s = "A" THEN NewSet(r, "Newest") ELSE AbsentSet]
    /\ InitMiners(UserMiner(NoOwner, {}, FALSE, NilTimeout), AbsentMiner)
    /\ blocked = {}
    /\ pods = [n \in Names |-> AbsentPod]
    /\ msw = [s \in Sets |-> IdleMsw]
    /\ mw = IdleMw
    /\ chain = NewChain
    /\ cms = [k \in ConfigMapNames |-> AbsentConfigMap]
    /\ cw = IdleCw
    /\ ledger = EmptyLedger
    /\ faults = 0
    /\ user = MaxChainWrites

NextFrame ==
    \/ ChainPass
    \/ ChRemoveFinalizer
    \/ UserDeleteChain
    \/ \E k \in ConfigMapNames : UserCreateConfigMap(k)
    \/ MsPass("A")
    \/ MsRemoveFinalizer("A")
    \/ UserDeleteSet("A")

SpecFrame == InitFrame /\ [][NextFrame]_vars

----------------------------------------------------------------------------
(* Claims *)

\* the Miners that match the selector of s and are controlled by s
OwnedMiners(s) ==
    {n \in Names : miners[n].exists /\ MatchesSelector(s, miners[n])
                   /\ IsControlledBy(miners[n], s)}

ConvergedA ==
    /\ Cardinality(OwnedMiners("A")) = sets["A"].replicas
    /\ sets["A"].statusReplicas = sets["A"].replicas
    /\ sets["A"].resized = "True"

\* C1: with both controllers re-invoked fairly and no further external
\* write, the system reaches and stays in a state where exactly
\* spec.replicas Miners match and are controlled by the set, the persisted
\* status.replicas equals spec.replicas and Resized is True.
C1_Convergence == <>[]ConvergedA

\* a Miner the MinerSet created (it carries the finalizer the set put on it)
\* is being deleted and its pod is gone
DeletingSetMinerNoPod(n) ==
    /\ miners[n].exists
    /\ miners[n].del
    /\ HasGeneratedPrefix(n, "A")
    /\ pods[n].state = "absent"

\* C2: a Miner created by a MinerSet that carries a deletion marker is
\* removed from the store in the end, once its pod is gone.
C2_DeletedMinerRemoved ==
    \A n \in GenNames("A") : DeletingSetMinerNoPod(n) ~> ~miners[n].exists

(* C3 and C4: the Miner controller's delete pass, under SpecMiner *)

\* the step of a delete pass that stores the Miner without the miner finalizer
RemovesMinerFinalizer ==
    /\ mw.pc = "DelRemoveFin"
    /\ mw'.pc = "Done"
    /\ mw'.err = "FinalizerRemoved"

\* C3: the Miner controller removes the miner finalizer only in a state
\* where the backing pod is absent from the store.
C3_FinalizerOnlyWithoutPod ==
    [][RemovesMinerFinalizer => pods[mw.name].state = "absent"]_vars

\* C4: with podDeletionTimeout = 0 and a pod whose delete request never
\* succeeds, a delete pass never ends with the poll's timeout error.
C4_ZeroTimeoutNeverTimesOut ==
    ~(/\ mw.pc = "Done" /\ mw.result = "err" /\ mw.err = "Timeout"
      /\ mw.pdt = 0 /\ mw.name \in blocked)

(* C5 to C10: the MinerSet controller's pass *)

\* the step that ends a pass with the status persisted
Success(s) ==
    /\ msw[s].pc = "Status"
    /\ msw'[s].pc = "Done"
    /\ msw'[s].result = "ok"

\* the Miners the pass read as matching orphans
ListedOrphans(s) ==
    {msw[s].all[i].name : i \in {j \in 1..Len(msw[s].all) : msw[s].all[j].owner = NoOwner}}

\* the Miners the pass read as controlled by another object
ListedForeign(s) ==
    {msw[s].all[i].name :
        i \in {j \in 1..Len(msw[s].all) : msw[s].all[j].owner \notin {NoOwner, s}}}

\* C5 as claimed: after a successful pass every Miner that the pass met as
\* a matching orphan and that is still in the store has a controller
\* reference to the set and is counted in the status.replicas the pass
\* persists.
C5_OrphanAdoptedByEveryPass ==
    [][\A s \in Sets : Success(s) =>
          \A n \in ListedOrphans(s) :
             miners'[n].exists =>
                /\ miners'[n].owner = s
                /\ n \in SeqNames(msw[s].filtered)]_vars

\* C5, amended: when the adoption patch of a matching orphan succeeds, the
\* stored Miner has a controller reference to the set right after the patch
\* and the Miner is counted in the status.replicas that the pass persists;
\* an orphan whose patch failed is not counted, and the pass goes on.
C5_OrphanAdoptedWhenPatched ==
    [][\A s \in Sets :
          /\ \A n \in msw'[s].patched \ msw[s].patched :
                /\ n \in ListedOrphans(s)
                /\ miners'[n].exists /\ miners'[n].owner = s
          /\ Success(s) =>
                /\ sets'[s].statusReplicas = Len(msw[s].filtered)
                /\ \A n \in ListedOrphans(s) :
                      n \in SeqNames(msw[s].filtered) <=> n \in msw[s].patched]_vars

C5_Witness ==
    \E s \in Sets :
       /\ msw[s].pc = "Done" /\ msw[s].result = "ok"
       /\ sets[s].statusReplicas > 0
       /\ \E n \in UserNames :
             /\ miners[n].exists /\ miners[n].owner = s
             /\ minerSetFinalizer \notin miners[n].fins

\* C6: with two sets that match the same orphan, a Miner is counted only
\* in the persisted status of the set that controls it, and only that set's
\* scale-down sends a delete request for it.
C6_CountedOnlyByOwner ==
    [][\A s \in Sets :
          /\ Success(s) =>
                \A n \in SeqNames(msw[s].filtered) :
                   miners'[n].exists => miners'[n].owner = s
          /\ \A n \in msw'[s].delreq \ msw[s].delreq :
                miners[n].exists => miners[n].owner = s]_vars

\* C7: a Miner that the pass read with a controller reference to another
\* object is not patched, not deleted and not counted by that pass: no step
\* of the pass changes it in the store, and the status.replicas the pass
\* persists counts none of them.
C7_ForeignUntouched ==
    [][\A s \in Sets :
          /\ \A n \in ListedForeign(s) :
                /\ n \notin msw'[s].patched
                /\ n \notin msw'[s].delreq
                /\ n \notin SeqNames(msw'[s].filtered)
                /\ n \notin SeqNames(msw'[s].toDelete)
                /\ msw'[s] # msw[s] => miners'[n] = miners[n]
          /\ Success(s) =>
                sets'[s].statusReplicas =
                   Cardinality(SeqNames(msw[s].filtered) \ ListedForeign(s))]_vars

C7_Witness ==
    \E s \in Sets :
       /\ msw[s].pc = "Status"
       /\ ListedForeign(s) # {}
       /\ msw[s].filtered # <<>>
       /\ msw[s].delreq # {}

Distinct(q) == \A i, j \in 1..Len(q) : i # j => q[i] # q[j]

\* C8: a pass that counts n < R Miners has, when it comes to persist its
\* status, created exactly R - n Miners with pairwise different generated
\* names that start with the set's name and differ from the names of the
\* Miners it listed, and has sent no delete request.
C8_ScaleUp ==
    \A s \in Sets :
       (msw[s].pc = "Status" /\ Len(msw[s].filtered) < msw[s].replicas) =>
          /\ Len(msw[s].created) = msw[s].replicas - Len(msw[s].filtered)
          /\ Distinct(msw[s].created)
          /\ \A i \in 1..Len(msw[s].created) :
                /\ HasGeneratedPrefix(msw[s].created[i], s)
                /\ msw[s].created[i] \notin SeqNames(msw[s].all)
          /\ msw[s].delreq = {}

C8_Witness ==
    \E s \in Sets :
       /\ msw[s].pc = "Status"
       /\ Len(msw[s].all) > 0
       /\ Len(msw[s].created) = 2

C10_SkipDeletingAndNotFound ==
    \A s \in Sets :
       /\ \A i \in 1..Len(msw[s].toDelete) :
             msw[s].toDelete[i].del => msw[s].toDelete[i].name \notin msw[s].delreq
       /\ ~(msw[s].pc = "Done" /\ msw[s].result = "err" /\ msw[s].err = "NotFound")

C10_Witness ==
    \E s \in Sets :
       /\ msw[s].pc = "Status"
       /\ msw[s].answer = "NotFound"
       /\ \E i \in 1..Len(msw[s].toDelete) : msw[s].toDelete[i].del

\* C12: after a successful pass, with no other writer and no store error
\* since the start, the persisted status.replicas equals the number of
\* Miners that are in the store when the pass returns, match the selector
\* and are controlled by the set.
C12_StatusCountsStoredMiners ==
    [][\A s \in Sets :
          (Success(s) /\ user = MaxUser /\ faults = MaxFaults) =>
             sets'[s].statusReplicas =
                Cardinality({n \in Names : /\ miners'[n].exists
                                           /\ MatchesSelector(s, miners'[n])
                                           /\ IsControlledBy(miners'[n], s)})]_vars

\* C13: the counters a successful pass persists are computed from its
\* filtered list L: replicas = |L|, fullyLabeledReplicas = the Miners of L
\* whose labels include every template label, readyReplicas = those with
\* phase Running, availableReplicas = those with phase Running and
\* observedGeneration = generation; MinersReady is True exactly when
\* readyReplicas = replicas and otherwise False/Unavailable.
C13_StatusAggregation ==
    [][\A s \in Sets : Success(s) =>
          LET L == msw[s].filtered
              I == 1..Len(L)
          IN /\ sets'[s].statusReplicas = Len(L)
             /\ sets'[s].fullyLabeled =
                   Cardinality({i \in I : TemplateLabels(s) \subseteq L[i].labels})
             /\ sets'[s].ready = Cardinality({i \in I : L[i].phase = "Running"})
             /\ sets'[s].available =
                   Cardinality({i \in I : L[i].phase = "Running" /\ L[i].og = L[i].gen})
             /\ sets'[s].minersReady = "True" <=> sets'[s].ready = sets'[s].statusReplicas
             /\ sets'[s].minersReady \in {"True", "Unavailable"}]_vars

C13_Witness ==
    /\ msw["A"].pc = "Done" /\ msw["A"].result = "ok"
    /\ sets["A"].statusReplicas = 2
    /\ sets["A"].fullyLabeled = 1
    /\ sets["A"].ready = 2
    /\ sets["A"].available = 1
    /\ sets["A"].minersReady = "True"

\* the Miners of s are up: the pass listed every stored Miner of s as the
\* store holds it, and each has a running and ready pod and the phase
\* Running that the Miner controller persisted for it
MinersUp(s) ==
    /\ msw[s].filtered # <<>>
    /\ SeqNames(msw[s].filtered) = OwnedMiners(s)
    /\ \A i \in 1..Len(msw[s].filtered) :
          LET n == msw[s].filtered[i].name
          IN /\ msw[s].filtered[i] = Snap(n)
             /\ ~miners[n].del
             /\ pods[n].state = "present" /\ pods[n].phase = "Running" /\ pods[n].ready
             /\ miners[n].st.phase = "Running"

\* C14: with both controllers running, a successful MinerSet pass over
\* Miners whose pods are all running and ready, and whose spec never changed
\* after the Miner controller reconciled them, persists readyReplicas =
\* replicas and availableReplicas = readyReplicas.
C14_ReadyAndAvailable ==
    [][\A s \in Sets : (Success(s) /\ MinersUp(s)) =>
          /\ sets'[s].ready = sets'[s].statusReplicas
          /\ sets'[s].available = sets'[s].ready]_vars

\* a Miner pass that is not a deletion persists its status and returns
\* without error
MinerSuccess ==
    /\ mw.pc = "Status"
    /\ mw'.pc = "Done"
    /\ mw'.result = "ok"

\* C19: the status a successful non-deletion Miner pass persists follows
\* the pod the pass observed: no pod gives Pending with PodHealthy
\* False/PodNotFound; running and not ready gives Provisioning with
\* PodHealthy False/Provisioning; running and ready gives Running; failed
\* gives Failed with PodHealthy False/Failed and a failure reason equal to
\* the pod's message, or "Pod failed" when the message is empty.
C19_PhaseDerivation ==
    [][MinerSuccess =>
          LET pod == mw.pod
              st == miners'[mw.name].st
          IN /\ pod.state = "absent" =>
                   st.phase = "Pending" /\ st.healthy = "PodNotFound"
             /\ (pod.state # "absent" /\ pod.phase = "Running" /\ ~pod.ready) =>
                   st.phase = "Provisioning" /\ st.healthy = "Provisioning"
             /\ (pod.state # "absent" /\ pod.phase = "Running" /\ pod.ready) =>
                   st.phase = "Running"
             /\ (pod.state # "absent" /\ pod.phase = "Failed") =>
                   /\ st.phase = "Failed" /\ st.healthy = "Failed"
                   /\ st.fail = (IF pod.message = "" THEN "Pod failed" ELSE pod.message)]_vars

C19_Witness ==
    /\ mw.pc = "Done" /\ mw.result = "ok"
    /\ pods[mw.name].phase = "Failed" /\ pods[mw.name].message = "OOMKilled"
    /\ miners[mw.name].st.phase = "Failed"
    /\ miners[mw.name].st.healthy = "Failed"
    /\ miners[mw.name].st.fail = "OOMKilled"

\* C20: a Miner pass that persists phase Running persists PodHealthy,
\* InfrastructureReady and BootstrapReady all True and the pod's IPs as the
\* addresses, also when the pod existed before the Miner's first pass.
C20_RunningConditions ==
    [][(MinerSuccess /\ miners'[mw.name].st.phase = "Running") =>
          LET st == miners'[mw.name].st
          IN /\ st.healthy = "True"
             /\ st.infra = "True"
             /\ st.boot = "True"
             /\ st.addrs = mw.pod.ips]_vars

\* a Chain pass that is not a deletion persists its status and returns
\* without error
ChainSuccess ==
    /\ cw.pc = "Status"
    /\ cw'.pc = "Done"
    /\ cw'.result = "ok"

\* C15: after a successful non-deletion pass on Chain g the store holds
\* exactly one ConfigMap labelled chain.onex.io/name=g and exactly one Miner
\* named g, each with a controller owner reference to the Chain.
C15_ChainChildrenExist ==
    [][ChainSuccess =>
          LET g == ChainName
              labelled == {k \in ConfigMapNames :
                             cms'[k].exists /\ ChainLabel(g) \in cms'[k].labels}
          IN /\ Cardinality(labelled) = 1
             /\ \A k \in labelled : cms'[k].owner = g
             /\ miners'[ChainMinerName(g)].exists
             /\ miners'[ChainMinerName(g)].owner = g]_vars

\* C16: the steps of the Chain passes, failed and repeated ones included,
\* add at most one ConfigMap and at most one Miner for the Chain and none
\* once one exists; a pass over a converged Chain creates nothing; a
\* successful pass leaves status.observedGeneration = metadata.generation.
C16_ChainIdempotent ==
    [][cw' # cw =>
          LET newConfigMaps == {k \in ConfigMapNames : cms'[k].exists /\ ~cms[k].exists}
              newMiners == {n \in Names : miners'[n].exists /\ ~miners[n].exists}
          IN /\ Cardinality(newConfigMaps) <= 1
             /\ Cardinality(newMiners) <= 1
             /\ IsConfigMapReconciled(ChainName) => newConfigMaps = {}
             /\ IsMinerReconciled(ChainName) => newMiners = {}
             /\ (cw.pc = "Status" /\ cw.st.og = cw.gen) =>
                    newConfigMaps = {} /\ newMiners = {}
             /\ ChainSuccess => chain'.st.og = chain'.gen]_vars

\* a second pass over a Chain whose status is converged and whose ConfigMap
\* and Miner are in the store has run both phases and is about to persist
C16_Witness ==
    /\ cw.pc = "Status" /\ ~cw.stale
    /\ cw.st.og = cw.gen /\ chain.st = cw.st
    /\ cw.st.configMapsCreated = "True" /\ cw.st.minersCreated = "True"
    /\ IsConfigMapReconciled(ChainName) /\ IsMinerReconciled(ChainName)

\* C17: whenever the stored ConfigMapsCreated condition is True a ConfigMap
\* with the Chain's label is in the store, and whenever the stored
\* MinersCreated condition is True the Chain's Miner is in the store.
C17_ConditionsReflectExistence ==
    chain.exists =>
       /\ chain.st.configMapsCreated = "True" => IsConfigMapReconciled(ChainName)
       /\ chain.st.minersCreated = "True" => miners[ChainMinerName(ChainName)].exists

\* C18: the status a successful non-deletion Chain pass persists has
\* observedGeneration = metadata.generation, a configMapRef whose name
\* contains the Chain's name and names a stored ConfigMap of the Chain, and
\* a minerRef whose name is the Chain's name.
C18_ChainStatusFields ==
    [][ChainSuccess =>
          LET st == chain'.st
          IN /\ st.og = chain'.gen
             /\ st.configMapRef.set
             /\ NameContains(st.configMapRef.name, ChainName)
             /\ st.configMapRef.name \in ConfigMapNames
             /\ cms'[st.configMapRef.name].exists
             /\ st.minerRef.set
             /\ st.minerRef.name = ChainMinerName(ChainName)]_vars

(* C21 to C24: the delete pass of the Miner controller *)

\* the delete pass persisted its first status write
DeleteStatusPersisted ==
    /\ mw.pc = "DelStatus"
    /\ mw'.pc = "DelGetPod"

\* C21: once the Miner controller has run a delete pass on a Miner with a
\* deletion marker, the Miner's stored phase is Deleting, whatever it was.
C21_DeletingPhase ==
    [][DeleteStatusPersisted => miners'[mw.name].st.phase = "Deleting"]_vars

\* a step of the delete pass that sends a delete request for the pod
PodDeleteRequest ==
    /\ mw.pc = "DelPoll"
    /\ mw' # mw \/ pods' # pods

\* C22: a delete pass persists PodHealthy False/Deleting before any delete
\* request for the pod, whatever the Miner's status was; when that status
\* write fails the pass sends no delete request and keeps the finalizer.
C22_DeletingBeforePodDelete ==
    [][/\ PodDeleteRequest =>
             /\ mw.st.healthy = "Deleting"
             /\ miners[mw.name].exists => miners[mw.name].st.healthy = "Deleting"
       /\ DeleteStatusPersisted => miners'[mw.name].st.healthy = "Deleting"
       /\ (mw.pc = "DelStatus" /\ mw'.pc = "Done") =>
             /\ mw'.result = "err"
             /\ pods' = pods
             /\ miners' = miners]_vars

C22_Witness ==
    /\ mw.pc = "DelRemoveFin"
    /\ miners[mw.name].exists
    /\ miners[mw.name].st.phase = "Running"
    /\ miners[mw.name].st.healthy = "Deleting"
    /\ pods[mw.name].state = "terminating"

\* the poll of the delete pass ends with its deadline error
PollTimedOut ==
    /\ mw.pc = "DelPoll"
    /\ mw'.pc = "Done"
    /\ mw'.err = "Timeout"

\* C23: the poll ends with the deadline error only when no tick is left
\* before the timeout (10s by default, else spec.podDeletionTimeout); the
\* pass then returns an error, keeps the miner finalizer and is over.
C23_PollTimeout ==
    [][PollTimedOut =>
          /\ mw.elapsed + podPollInterval >= DeletionTimeout(mw.pdt)
          /\ mw'.result = "err"
          /\ ~MwActive'
          /\ miners' = miners
          /\ pods' = pods
          /\ miners[mw.name].exists => minerFinalizer \in miners'[mw.name].fins]_vars

C23_Witness ==
    /\ mw.pc = "Done" /\ mw.result = "err" /\ mw.err = "Timeout"
    /\ mw.pdt = NilTimeout
    /\ miners[mw.name].exists /\ minerFinalizer \in miners[mw.name].fins
    /\ pods[mw.name].state = "present"

\* C24: when the poll of a delete pass ends with the deadline error, the
\* stored PodHealthy condition of the Miner is False/MinerDeletionFailed.
C24_DeletionFailedStored ==
    [][(PollTimedOut /\ miners[mw.name].exists) =>
          miners'[mw.name].st.healthy = "MinerDeletionFailed"]_vars

\* C25: after a successful non-deletion Miner pass that saw a pod, the
\* stored status.podRef is set and names the pod, also when the pass that
\* created the pod failed afterwards and the request was delivered again.
C25_PodRefRecorded ==
    [][(MinerSuccess /\ mw.pod.state # "absent") =>
          miners'[mw.name].st.podRef = Ref(mw.name)]_vars

\* the step of a Miner pass that creates the pod
PodCreated ==
    /\ mw.pc = "Pod"
    /\ pods[mw.name].state = "absent"
    /\ pods'[mw.name].state # "absent"

\* the image of the pod of a Miner, by miner type
ExpectedImage(mtype) ==
    CASE mtype = "small" -> "nginx:alpine"
      [] mtype = "medium" -> "nginx"
      [] mtype = "large" -> "redis:alpine"
      [] OTHER -> "busybox"

\* C26: the pod a Miner pass creates is stored under the Miner's name with
\* a controller owner reference to the Miner, the image of the Miner's type
\* (busybox for any other type, the empty one included) and the Miner's
\* restart policy, Always when that is unset; the pass goes on for every
\* miner type.
C26_PodConstruction ==
    [][PodCreated =>
          LET m == miners[mw.name]
              pod == pods'[mw.name]
          IN /\ \A n \in Names \ {mw.name} : pods'[n] = pods[n]
             /\ pod.state = "present"
             /\ pod.owner = mw.name
             /\ pod.image = ExpectedImage(m.mtype)
             /\ pod.restart = (IF m.restart = "" THEN "Always" ELSE m.restart)
             /\ mw'.pc = "Sync"]_vars

C26_Witness ==
    /\ mw.pc = "Sync"
    /\ miners[mw.name].mtype = "large" /\ miners[mw.name].restart = "Never"
    /\ pods[mw.name].state = "present"
    /\ pods[mw.name].image = "redis:alpine" /\ pods[mw.name].restart = "Never"
    /\ pods[mw.name].owner = mw.name

\* C27: after a successful non-deletion MinerSet pass the set's persisted
\* status.observedGeneration equals its metadata.generation.
C27_SetObservedGeneration ==
    [][\A s \in Sets : Success(s) => sets'[s].og = sets'[s].gen]_vars

\* the pass on s counted exactly spec.replicas Miners, all controlled by s
\* when it listed them, and is about to persist the status
CountedExactly(s) ==
    /\ msw[s].pc = "Status"
    /\ Len(msw[s].filtered) = msw[s].replicas
    /\ \A i \in 1..Len(msw[s].all) :
          msw[s].all[i].owner = NoOwner => shouldExcludeMiner(s, msw[s].all[i])

\* the counters of the stored status are the ones of the list of the pass
SameCountersAsBefore(s) ==
    LET c == updateStatusCounts(msw[s].filtered, TemplateLabels(s))
    IN /\ sets[s].statusReplicas = Len(msw[s].filtered)
       /\ sets[s].fullyLabeled = c.fullyLabeled
       /\ sets[s].ready = c.ready
       /\ sets[s].available = c.available

\* C28: a pass that counts exactly spec.replicas Miners, all controlled by
\* the set already, has sent no create, delete or patch for a Miner and
\* leaves the Miners as they are; when it succeeds it persists MinersCreated
\* and Resized True, and the same counters as before when the stored
\* counters were those of the same Miners.
C28_IdempotentAtConvergence ==
    [][\A s \in Sets : (CountedExactly(s) /\ msw'[s].pc = "Done") =>
          /\ msw[s].created = <<>>
          /\ msw[s].delreq = {}
          /\ msw[s].patched = {}
          /\ miners' = miners
          /\ msw'[s].result = "ok" =>
                /\ sets'[s].minersCreated = "True"
                /\ sets'[s].resized = "True"
                /\ SameCountersAsBefore(s) =>
                      /\ sets'[s].statusReplicas = sets[s].statusReplicas
                      /\ sets'[s].fullyLabeled = sets[s].fullyLabeled
                      /\ sets'[s].ready = sets[s].ready
                      /\ sets'[s].available = sets[s].available]_vars

\* a repeated pass over two Miners of the set, counted by the pass before
C28_Witness ==
    /\ CountedExactly("A")
    /\ Len(msw["A"].filtered) = 2
    /\ msw["A"].resized = "True"
    /\ sets["A"].resized = "True"
    /\ sets["A"].statusReplicas = 2

\* the Miners a step of the pass on s created
NewMiners == {n \in Names : miners'[n].exists /\ ~miners[n].exists}

\* the labels, the owner reference and the spec of a created Miner, apart
\* from the template labels
CreatedAsDesired(m, s) ==
    /\ <<minerSetNameLabel, s>> \in m.labels
    /\ <<chainNameLabel, TemplateChain(s)>> \in m.labels
    /\ m.owner = s
    /\ m.refs = {}
    /\ m.mtype = TemplateMinerType(s)
    /\ m.restart = TemplateRestartPolicy(s)
    /\ m.pdt = NilTimeout

\* C29 as stated: every Miner a MinerSet creates carries all template
\* labels, the set name label and the chain name label, one controller
\* owner reference to the set, and the template's spec.
C29_CreatedMinerAllLabels ==
    [][\A s \in Sets : (msw[s].pc = "Create" /\ msw'[s] # msw[s]) =>
          \A n \in NewMiners :
             /\ TemplateLabels(s) \subseteq miners'[n].labels
             /\ CreatedAsDesired(miners'[n], s)]_vars

\* C29, amended: every Miner a MinerSet creates carries the set name label,
\* the chain name label of the template's chain and every template label
\* with another key, and no other label; it has one controller owner
\* reference to the set and the template's spec.
C29_CreatedMinerLabels ==
    [][\A s \in Sets : (msw[s].pc = "Create" /\ msw'[s] # msw[s]) =>
          \A n \in NewMiners :
             /\ miners'[n].labels =
                   {l \in TemplateLabels(s) : l[1] \notin {minerSetNameLabel, chainNameLabel}}
                   \cup {<<minerSetNameLabel, s>>, <<chainNameLabel, TemplateChain(s)>>}
             /\ CreatedAsDesired(miners'[n], s)]_vars

C29_Witness ==
    /\ msw["B"].created # <<>>
    /\ miners[msw["B"].created[1]].exists
    /\ miners[msw["B"].created[1]].owner = "B"
    /\ <<chainNameLabel, TemplateChain("B")>> \in miners[msw["B"].created[1]].labels
    /\ <<chainNameLabel, "main">> \notin miners[msw["B"].created[1]].labels
    /\ TierLabel \in miners[msw["B"].created[1]].labels

\* the ConfigMap phase of a Chain pass has returned
ConfigMapPhaseReturned == cw.pc = "ConfigMap" /\ cw'.pc # "ConfigMap"

\* C30: in a non-deletion Chain pass the Miner phase is executed after the
\* ConfigMap phase whether that phase succeeded or failed; the pass never
\* ends at the ConfigMap phase.
C30_BothPhasesAttempted ==
    [][ConfigMapPhaseReturned => cw'.pc = "Miner"]_vars

\* the phases a Miner's status can hold: unset or one of the MinerPhase values
MinerPhases == {"", "Pending", "Provisioning", "Running", "Deleting", "Failed"}

\* the phase reconcile persists for a Miner read with status st whose
\* syncPodStatus observes pod
PersistedPhase(st, pod) == syncPodStatus(InitialPhase(st), pod).phase

\* C31: the phase a successful non-deletion Miner pass persists does not
\* depend on the phase stored before: a Miner that differs from the
\* reconciled one only in its stored phase and observes the same pod gets
\* the same phase persisted.
C31_PhaseNotRemembered ==
    [][MinerSuccess =>
          \A p \in MinerPhases :
             PersistedPhase([miners[mw.name].st EXCEPT !.phase = p], mw.pod)
                = miners'[mw.name].st.phase]_vars

\* adoptOrphan's patch for Miner n has been applied in a pass of set s
AdoptionPatched(s, n) ==
    /\ msw[s].pc = "Filter"
    /\ n \in msw'[s].patched \ msw[s].patched

\* C32: the adoption patch keeps what other writers stored on the Miner
\* after the pass listed it: the stored labels, finalizers and owner
\* references are still there after the patch, and the set's controller
\* owner reference is added.
C32_AdoptionKeepsEdits ==
    [][\A s \in Sets, n \in Names : AdoptionPatched(s, n) =>
          /\ miners'[n].labels = miners[n].labels
          /\ miners'[n].fins = miners[n].fins
          /\ miners[n].refs \subseteq miners'[n].refs
          /\ miners'[n].owner = s]_vars

\* a write of a MinerSet pass is rejected with Conflict and the pass returns
SetConflict(s) == MsActive(s) /\ msw'[s].pc = "Done" /\ msw'[s].err = "Conflict"

\* a write of a Miner pass is rejected with Conflict and the pass returns
MinerConflict == MwActive /\ mw'.pc = "Done" /\ mw'.err = "Conflict"

\* the last pass on the object ended with a Conflict
SetConflicted(s) == msw[s].pc = "Done" /\ msw[s].err = "Conflict"
MinerConflicted == mw.pc = "Done" /\ mw.err = "Conflict"

PodCreateFailed ==
    /\ mw.pc = "Pod"
    /\ pods[mw.name].state = "absent"
    /\ mw'.pc = "Done" /\ mw'.result = "err"

\* a MinerSet pass returns an error from createMiners
MinerCreateFailed(s) ==
    /\ msw[s].pc = "Create"
    /\ msw'[s].pc = "Done" /\ msw'[s].result = "err"

\* C34: when creating the pod fails, the pass returns the error and the
\* stored InfrastructureReady condition of the Miner is False with reason
\* Failed; when creating a Miner fails in a scale-up, the pass returns the
\* error and a stored condition of the set shows the failure.
C34_CreateFailureRecorded ==
    [][/\ PodCreateFailed => miners'[mw.name].st.infra = "Failed"
       /\ \A s \in Sets : MinerCreateFailed(s) =>
             \/ sets'[s].minersCreated \notin {"", "True"}
             \/ sets'[s].resized \notin {"", "True", "Creating", "Deleting"}]_vars

\* createMiners sends the create request for a Miner
CreateRequest(s) == msw[s].pc = "Create" /\ msw'[s].pc = "Confirm"

\* waitForMinerCreation ends with an error
ConfirmFailed(s) == msw[s].pc = "Confirm" /\ msw'[s].pc = "Done"

\* C35: in a scale-up the create request for the next Miner is sent only
\* after r.Get has found every Miner the pass created before; when the
\* wait for a created Miner ends with an error the pass returns an error,
\* creates no further Miner and persists no status.
C35_ConfirmBeforeNextCreate ==
    [][\A s \in Sets :
          /\ CreateRequest(s) =>
                \A i \in 1..Len(msw[s].created) : msw[s].created[i] \in msw[s].confirmed
          /\ ConfirmFailed(s) =>
                /\ msw'[s].result = "err"
                /\ miners' = miners
                /\ sets' = sets]_vars

\* a pass that created and confirmed one Miner has sent the create request
\* for a second one
C35_Witness ==
    \E s \in Sets :
       /\ msw[s].pc = "Confirm"
       /\ Len(msw[s].created) = 2
       /\ msw[s].created[1] \in msw[s].confirmed

\* a pass of the Chain controller on a Chain with a deletion marker returns
ChainDeletePassEnds == cw.pc = "RemoveFin" /\ cw'.pc = "Done"

\* a pass of the MinerSet controller on a set with a deletion marker returns
SetDeletePassEnds(s) == msw[s].pc = "RemoveFin" /\ msw'[s].pc = "Done"

\* C36: a pass of the Chain controller or of the MinerSet controller on an
\* object with a deletion marker goes from the read straight to the removal
\* of its finalizer, and that step changes nothing in the store except the
\* finalizer of that object (whose removal lets the store drop the object):
\* no ConfigMap, Miner or pod is created, deleted or patched and no status
\* is written.
C36_DeletePathFrame ==
    [][/\ (~CwActive /\ cw'.pc \notin {"Idle", "Done"} /\ chain.del) => cw'.pc = "RemoveFin"
       /\ ChainDeletePassEnds =>
             /\ chain' \in {chain, AbsentChain}
             /\ UNCHANGED <<sets, miners, pods, cms>>
       /\ \A s \in Sets :
             /\ (~MsActive(s) /\ MsActive(s)' /\ sets[s].del) => msw'[s].pc = "RemoveFin"
             /\ SetDeletePassEnds(s) =>
                   /\ sets'[s] \in {sets[s], AbsentSet}
                   /\ \A t \in Sets \ {s} : sets'[t] = sets[t]
                   /\ UNCHANGED <<chain, miners, pods, cms>>]_vars

\* both delete passes have removed their finalizer: the Chain and the set
\* are gone, and a Miner that the set controlled is still stored
C36_Witness ==
    /\ cw.pc = "Done" /\ cw.result = "ok" /\ ~chain.exists
    /\ msw["A"].pc = "Done" /\ msw["A"].result = "ok" /\ ~sets["A"].exists
    /\ \E n \in Names : miners[n].exists /\ miners[n].owner = "A" /\ ~miners[n].del

\* C37: after a successful non-deletion MinerSet pass the stored MinerSet
\* carries the label chain.onex.io/name with the template's chain name.
C37_SetChainLabelStored ==
    [][\A s \in Sets : Success(s) => sets'[s].chainLabel = TemplateChain(s)]_vars

\* no two entries of the list have the same type
NoDuplicateTypes(conds) ==
    \A i, j \in 1..Len(conds) : conds[i].type = conds[j].type => i = j

\* the entries of the types other than t, in their order
OtherTypes(conds, t) == SelectSeq(conds, LAMBDA c : c.type # t)

\* the stored entry equals the condition in status, reason and message
SameCondition(e, c) == e.status = c.status /\ e.reason = c.reason /\ e.message = c.message

\* C38: every call of Set, SetTrue, SetFalse or SetUnknown leaves at most
\* one entry per condition type; a call whose status, reason and message
\* equal the stored entry of the type leaves the list, with that entry's
\* transition time, unchanged; a call for a type that has no entry appends
\* the condition at the end; and the entries of the other types and their
\* order are never changed.
C38_ConditionLedger ==
    [][ledger'.conds # ledger.conds \/ ledger'.last # ledger.last \/ ledger'.now # ledger.now =>
          LET old == ledger.conds
              new == ledger'.conds
              c == ledger'.last
          IN /\ NoDuplicateTypes(old) => NoDuplicateTypes(new)
             /\ (Get(old, c.type) # NoCondition /\ SameCondition(Get(old, c.type), c)) =>
                   new = old
             /\ Get(old, c.type) = NoCondition => new = Append(old, c)
             /\ OtherTypes(new, c.type) = OtherTypes(old, c.type)
             /\ Get(new, c.type).status = c.status]_vars

\* a condition was set again with the same status, reason and message at a
\* later time and has kept its transition time, after another type was
\* appended behind it
C38_Witness ==
    /\ Len(ledger.conds) >= 2
    /\ ledger.last.type = ledger.conds[1].type
    /\ SameCondition(ledger.conds[1], ledger.last)
    /\ ledger.conds[1].time < ledger.last.time

\* the update that adds the finalizer fails and the pass returns
SetFinalizerFailed(s) == msw[s].pc = "AddFin" /\ msw'[s].pc = "Done"
MinerFinalizerFailed == mw.pc = "AddFin" /\ mw'.pc = "Done"

\* C39: the Miner controller creates a pod only for a Miner that has the
\* miner finalizer stored, and the MinerSet controller creates or adopts a
\* Miner only while the finalizer of the set is stored; a pass whose
\* finalizer update fails returns an error and has created, adopted and
\* deleted nothing.
C39_FinalizerBeforeChildren ==
    [][/\ PodCreated => minerFinalizer \in miners[mw.name].fins
       /\ MinerFinalizerFailed => (mw'.result = "err" /\ pods' = pods /\ miners' = miners)
       /\ \A s \in Sets :
             /\ (CreateRequest(s) \/ \E n \in Names : AdoptionPatched(s, n)) => sets[s].fin
             /\ SetFinalizerFailed(s) =>
                   /\ msw'[s].result = "err"
                   /\ msw[s].created = <<>> /\ msw[s].patched = {} /\ msw[s].delreq = {}
                   /\ miners' = miners]_vars

\* the set has stored its finalizer and created a Miner, and the Miner
\* controller has stored the miner finalizer on a Miner and created its pod
C39_Witness ==
    /\ sets["A"].fin
    /\ msw["A"].created # <<>>
    /\ \E n \in Names :
          /\ minerFinalizer \in miners[n].fins
          /\ pods[n].state = "present"

\* C40: every status a Miner pass persists has a failure reason only with
\* phase Failed and addresses only with phase Running.
C40_StatusFieldsFollowPhase ==
    [][(mw.pc \in {"Status", "DelStatus"} /\ miners'[mw.name].st # miners[mw.name].st) =>
          LET st == miners'[mw.name].st
          IN /\ st.fail # "" => st.phase = "Failed"
             /\ st.addrs # <<>> => st.phase = "Running"]_vars

====
